---------------------------- MODULE Spec2Model ----------------------------
(***************************************************************************)
(* Model of the Cloudflare worker(s) of src/src/index.ts.                  *)
(*                                                                         *)
(* The file holds three revisions of the worker:                           *)
(*   lines    1- 421  the per-sandbox worker   (/sandbox/:sandboxId/...)   *)
(*   lines  423- 871  the single-sandbox worker that checks                *)
(*                    getExposedPorts before exposePort                    *)
(*   lines  873-1178  the first single-sandbox worker                      *)
(*                                                                         *)
(* A request handler is an async function: it runs synchronously from one  *)
(* `await` to the next, so each action below is the code between two       *)
(* awaits.  The sandbox SDK, the container and the timers are the          *)
(* environment.  JavaScript strings on which the code computes (trim,      *)
(* includes, match, replace) are sequences of one-character strings.       *)
(***************************************************************************)
EXTENDS Integers, Sequences, FiniteSets, TLC

\* ------------------------------------------------------------------ bounds
MaxInits == 2      \* ws-url requests one worker instance receives
MaxStreams == 2    \* logs-stream requests (numbered after the ws-url requests)
MaxLogs == 2       \* log lines stored in processLogs
MaxFairInits == 1  \* ws-url requests of the specification with fair poll timers

\* ----------------------------------------------------------------- strings
IsSpace(c) == c \in {" ", "\n"}

RECURSIVE TrimStart(_)
TrimStart(s) == IF Len(s) > 0 /\ IsSpace(s[1]) THEN TrimStart(Tail(s)) ELSE s

RECURSIVE TrimEnd(_)
TrimEnd(s) ==
    IF Len(s) > 0 /\ IsSpace(s[Len(s)]) THEN TrimEnd(SubSeq(s, 1, Len(s) - 1)) ELSE s

\* String.prototype.trim
Trim(s) == TrimEnd(TrimStart(s))

\* String.prototype.includes
Includes(s, sub) ==
    \E i \in 0 .. (Len(s) - Len(sub)) : SubSeq(s, i + 1, i + Len(sub)) = sub

\* String.prototype.startsWith
StartsWith(s, pre) == Len(s) >= Len(pre) /\ SubSeq(s, 1, Len(pre)) = pre

\* The longest prefix of s without a "/": what ([^/]+) captures before a "/".
RECURSIVE UpToSlash(_)
UpToSlash(s) ==
    IF Len(s) = 0 \/ s[1] = "/" THEN <<>> ELSE <<s[1]>> \o UpToSlash(Tail(s))

Drop(s, n) == SubSeq(s, n + 1, Len(s))

PatLocal == <<"L", "o", "c", "a", "l", ":">>
PatReadyIn == <<"r", "e", "a", "d", "y", " ", "i", "n">>
PatLocalhost == <<"l", "o", "c", "a", "l", "h", "o", "s", "t", ":", "3", "3", "3", "3">>
PatVite == <<"v", "i", "t", "e">>
PatBunRunDev == <<"b", "u", "n", " ", "r", "u", "n", " ", "d", "e", "v">>

\* An optional value: <<>> is undefined, <<v>> is the value v.
None == <<>>
Some(v) == <<v>>

\* ------------------------------------------------------- inputs (V1 worker)
SandboxA == <<"a">>
\* an id with a character the URL parser leaves as it is in a path
SandboxQuote == <<"a", "'", "b">>
SandboxB == <<"b">>
Sandboxes == {SandboxA, SandboxB}

CmdBunRunDev == <<"b", "u", "n", " ", "r", "u", "n", " ", "d", "e", "v">>
CmdViteHost == <<"v", "i", "t", "e", " ", "-", "-", "h", "o", "s", "t">>
CmdSleep == <<"s", "l", "e", "e", "p", " ", "6", "0">>

\* data of the log events a process's log stream can carry
DataReady == <<" ", " ", "r", "e", "a", "d", "y", " ", "i", "n", " ", "5", " ", "m", "s", "\n">>
DataPlain == <<" ", "h", "m", "r", " ", "u", "p", "d", "a", "t", "e">>
DataBlank == <<" ", "\n">>
LogEvents == {None, Some(<<>>), Some(DataBlank), Some(DataReady), Some(DataPlain)}

\* --------------------------------------------------------- routing (V1 worker)
StrSandbox == <<"/", "s", "a", "n", "d", "b", "o", "x", "/">>
StrWsUrl == <<"/", "w", "s", "-", "u", "r", "l">>
StrTestHmr == <<"/", "t", "e", "s", "t", "-", "h", "m", "r">>
StrLogsStream == <<"/", "l", "o", "g", "s", "-", "s", "t", "r", "e", "a", "m">>
StrPreview == <<"/", "p", "r", "e", "v", "i", "e", "w">>
StrInit == <<"/", "i", "n", "i", "t">>
StrIndexHtml == <<"/", "i", "n", "d", "e", "x", ".", "h", "t", "m", "l">>
StrMainJs == <<"/", "m", "a", "i", "n", ".", "j", "s">>
StrOrigin == <<"h", "t", "t", "p", ":", "/", "/", "h">>

\* The common shape ^\/sandbox\/([^/]+)(.*) of the route patterns: the captured
\* sandbox id and what follows it.
SandboxMatch(pathname) ==
    IF StartsWith(pathname, StrSandbox)
    THEN LET rest == Drop(pathname, Len(StrSandbox))
             id == UpToSlash(rest)
         IN  [ok |-> Len(id) > 0, id |-> id, tail |-> Drop(rest, Len(id))]
    ELSE [ok |-> FALSE, id |-> <<>>, tail |-> <<>>]

\* /^\/sandbox\/([^/]+)\/ws-url$/
WsUrlMatch(pathname) ==
    SandboxMatch(pathname).ok /\ SandboxMatch(pathname).tail = StrWsUrl

\* /^\/sandbox\/([^/]+)\/test-hmr$/
TestHmrMatch(pathname) ==
    SandboxMatch(pathname).ok /\ SandboxMatch(pathname).tail = StrTestHmr

\* /^\/sandbox\/([^/]+)\/logs-stream$/
LogsMatch(pathname) ==
    SandboxMatch(pathname).ok /\ SandboxMatch(pathname).tail = StrLogsStream

\* a preview pattern that asks for the slash after 'preview'
PreviewMatchSlash(pathname) ==
    SandboxMatch(pathname).ok
        /\ StartsWith(SandboxMatch(pathname).tail, StrPreview \o <<"/">>)

\* /^\/sandbox\/([^/]+)\/preview(.*)$/
PreviewMatch(pathname) ==
    SandboxMatch(pathname).ok /\ StartsWith(SandboxMatch(pathname).tail, StrPreview)

\* a router whose test-hmr route takes every method
RouteAnyMethod(pathname, method) ==
    IF WsUrlMatch(pathname) THEN "ws-url"
    ELSE IF pathname = <<"/">> \/ pathname = StrIndexHtml THEN "root"
    ELSE IF TestHmrMatch(pathname) THEN "test-hmr"
    ELSE IF LogsMatch(pathname) THEN "logs-stream"
    ELSE IF PreviewMatch(pathname) THEN "preview"
    ELSE "notfound"

\* a router whose root route serves '/' only
RouteRootSlashOnly(pathname, method) ==
    IF WsUrlMatch(pathname) THEN "ws-url"
    ELSE IF pathname = <<"/">> THEN "root"
    ELSE IF TestHmrMatch(pathname) /\ method = "POST" THEN "test-hmr"
    ELSE IF LogsMatch(pathname) THEN "logs-stream"
    ELSE IF PreviewMatch(pathname) THEN "preview"
    ELSE "notfound"

\* The route of fetch() that handles a request proxyToSandbox did not take.
Route(pathname, method) ==
    IF WsUrlMatch(pathname) THEN "ws-url"
    ELSE IF pathname = <<"/">> \/ pathname = StrIndexHtml THEN "root"
    ELSE IF TestHmrMatch(pathname) /\ method = "POST" THEN "test-hmr"
    ELSE IF LogsMatch(pathname) THEN "logs-stream"
    ELSE IF PreviewMatch(pathname) THEN "preview"
    ELSE "notfound"

WsUrlPath(sid) == StrSandbox \o sid \o StrWsUrl
LogsStreamPath(sid) == StrSandbox \o sid \o StrLogsStream
InitPath(sid) == StrSandbox \o sid \o StrInit
TestHmrPath(sid) == StrSandbox \o sid \o StrTestHmr
PreviewPath(sid, sub) == StrSandbox \o sid \o StrPreview \o sub

\* the requests of the concurrency scenarios: ws-url and logs-stream
CorePaths == {WsUrlPath(s) : s \in Sandboxes} \cup {LogsStreamPath(s) : s \in Sandboxes}

\* new URL(`/sandbox/${sandboxId}/preview/`, url.origin).toString()
PreviewUrl(origin, sandboxId) == origin \o StrSandbox \o sandboxId \o StrPreview \o <<"/">>

\* ---------------------------------------------------------------- state
VARIABLES
    initialized,       \* const initialized = new Set<string>()
    processLogs,       \* const processLogs: string[]
    viteReadyPromise,  \* the promise last created (0: null); a promise is named
                       \* by the request that created it
    viteReadyResolve,  \* the promise the stored resolver resolves (0: null)
    resolvedBy,        \* per promise: 0 while pending, else the request whose
                       \* log reader resolved it
    req,               \* per request: where its handler stands, and its locals
    reader,            \* per request: the log reader (logStreamPromise) it started
    stream,            \* per request: the ReadableStream of its logs-stream (atStart:
                       \* how many lines its start() sent, history)
    procs,             \* per sandbox: what listProcesses returns
    files,             \* per sandbox: the files written under /workspace
    logSource,         \* per entry of processLogs: the sandbox whose process
                       \* produced it (history)
    exposed,           \* per sandbox: the exposure of port 3333 (None, or its URL)
    revision,          \* which of the three workers of the file runs
    sdk                \* what the sandbox SDK of the deployment provides

vars == <<initialized, processLogs, viteReadyPromise, viteReadyResolve, resolvedBy,
          req, reader, stream, procs, files, logSource, exposed, revision, sdk>>

ReqIds == 1 .. (MaxInits + MaxStreams)
WsReqs == 1 .. MaxInits
StreamReqs == (MaxInits + 1) .. (MaxInits + MaxStreams)

\* a call of the sandbox SDK, as a request's history records it
Call(op, pid, arg) == [op |-> op, pid |-> pid, arg |-> arg]

NoResp ==
    [status |-> 0, kind |-> "none", previewUrl |-> <<>>, sandboxId |-> <<>>, count |-> 0,
     url |-> <<>>, rawPreviewUrl |-> <<>>]

\* Response.json({ previewUrl, sandboxId })
WsUrlResponse(origin, sandboxId) ==
    [NoResp EXCEPT !.status = 200, !.kind = "json",
                   !.previewUrl = PreviewUrl(origin, sandboxId), !.sandboxId = sandboxId]

\* Response.json({ error: String(error) }, { status: 500 })
ErrorResponse == [NoResp EXCEPT !.status = 500, !.kind = "error"]

\* new Response('Not found', { status: 404 })
NotFoundResponse == [NoResp EXCEPT !.status = 404, !.kind = "Not found"]

IdleReq ==
    [pc |-> "idle", path |-> <<>>, method |-> "", origin |-> <<>>, route |-> "",
     sid |-> <<>>, processes |-> <<>>, k |-> 0, awaited |-> 0, resp |-> NoResp,
     calls |-> <<>>, needsInit |-> "na", wasInitialized |-> FALSE, endedBy |-> "na",
     wokenBy |-> 0, answer |-> <<>>, exposeVia |-> "na", wasExposed |-> "na",
     body |-> <<>>]

Absent == [kind |-> "absent", text |-> <<>>, count |-> 0]
FilePaths == {"/workspace/package.json", "/workspace/index.html",
              "/workspace/vite.config.js", "/workspace/main.js"}

\* the steps of an initialization of the per-sandbox worker after the kill loop,
\* in the order of the code
InitSteps ==
    << Call("writeFile", 0, "/workspace/package.json"),
       Call("writeFile", 0, "/workspace/index.html"),
       Call("writeFile", 0, "/workspace/vite.config.js"),
       Call("writeFile", 0, "/workspace/main.js"),
       Call("exec", 0, "bun install"),
       Call("startProcess", 0, "bun run dev") >>

\* the steps of an initialization of the single-sandbox workers (no kill loop,
\* no vite.config.js)
SingleInitSteps ==
    << Call("writeFile", 0, "/workspace/package.json"),
       Call("writeFile", 0, "/workspace/index.html"),
       Call("writeFile", 0, "/workspace/main.js"),
       Call("exec", 0, "bun install"),
       Call("startProcess", 0, "bun run dev") >>

\* The text of vite.config.js, as far as its base goes: the template literal puts
\* sandboxId between the quotes of a JavaScript string as it is.
StrBaseOpen == <<"b", "a", "s", "e", ":", " ", "'">>
ConfigText(sandboxId) ==
    StrBaseOpen \o StrSandbox \o sandboxId \o StrPreview \o <<"/", "'">>

\* the characters of s before its first single quote
RECURSIVE UpToQuote(_)
UpToQuote(s) ==
    IF Len(s) = 0 \/ s[1] = "'" THEN <<>> ELSE <<s[1]>> \o UpToQuote(Tail(s))

\* The base Vite reads from the text of vite.config.js: the string literal ends
\* at the first quote after the opening one, and the text is a valid module only
\* if nothing follows that quote (None: the config does not load).
BaseOf(text) ==
    IF ~StartsWith(text, StrBaseOpen) THEN None
    ELSE LET rest == Drop(text, Len(StrBaseOpen))
             lit == UpToQuote(rest)
         IN  IF Drop(rest, Len(lit)) = <<"'">> THEN Some(lit) ELSE None

\* what an initialization of sandboxId writes to a path
InitFile(path, sandboxId) ==
    CASE path = "/workspace/package.json" ->
             [kind |-> "package", text |-> CmdViteHost, count |-> 0]
      [] path = "/workspace/index.html" ->
             [kind |-> "html", text |-> StrMainJs, count |-> 0]
      [] path = "/workspace/vite.config.js" ->
             [kind |-> "config", text |-> ConfigText(sandboxId), count |-> 0]
      [] path = "/workspace/main.js" ->
             [kind |-> "main", text |-> <<>>, count |-> 0]

\* processes.find(p => p.command?.includes('vite') || p.command?.includes('bun run dev'))
IsViteProcess(p) ==
    /\ p.command # None
    /\ (Includes(p.command[1], PatVite) \/ Includes(p.command[1], PatBunRunDev))

HasViteProcess(processes) == \E i \in 1 .. Len(processes) : IsViteProcess(processes[i])

NeedsInitFromMemory(processes, sandboxId) ==
    ~HasViteProcess(processes) /\ sandboxId \notin initialized

\* let needsInit = !viteProcess
NeedsInit(processes, sandboxId) == ~HasViteProcess(processes)

\* logLine.includes('Local:') || logLine.includes('ready in') || logLine.includes('localhost:3333')
IsReadyLine(logLine) ==
    Includes(logLine, PatLocal) \/ Includes(logLine, PatReadyIn)
        \/ Includes(logLine, PatLocalhost)

\* a log line taken from the event as it is
LogLineUntrimmed(event) == IF event = None THEN <<>> ELSE event[1]

\* const logLine = event.data?.trim()
LogLine(event) == IF event = None THEN <<>> ELSE Trim(event[1])

\* the processes a sandbox may hold when the worker instance starts
OldSleep == [id |-> 90, command |-> Some(CmdSleep)]
OldNoCommand == [id |-> 91, command |-> None]
OldVite == [id |-> 90, command |-> Some(CmdViteHost)]
PreExisting == {<<>>, <<OldSleep, OldNoCommand>>, <<OldVite>>}

RemoveAt(s, i) == SubSeq(s, 1, i - 1) \o SubSeq(s, i + 1, Len(s))
RemoveId(s, id) == SelectSeq(s, LAMBDA p : p.id # id)

InitV1 ==
    /\ initialized = {}
    /\ processLogs = <<>>
    /\ viteReadyPromise = 0
    /\ viteReadyResolve = 0
    /\ resolvedBy = [p \in ReqIds |-> 0]
    /\ req = [r \in ReqIds |-> IdleReq]
    /\ reader = [r \in ReqIds |-> [state |-> "none"]]
    /\ stream = [r \in ReqIds |-> [state |-> "none", lastLogIndex |-> 0, emitted |-> <<>>, atStart |-> 0]]
    /\ procs \in {f \in [Sandboxes -> PreExisting] : f[SandboxB] = <<>>}
    /\ files = [s \in Sandboxes |-> [f \in FilePaths |-> Absent]]
    /\ logSource = <<>>
    /\ exposed = [s \in Sandboxes |-> None]
    /\ revision = 1
    /\ sdk = [getExposedPorts |-> TRUE]

\* ------------------------------------------------- the per-sandbox worker (V1)
UnchangedModule == UNCHANGED <<initialized, processLogs, viteReadyPromise, viteReadyResolve,
                               resolvedBy, logSource>>
UnchangedSandbox == UNCHANGED <<procs, files, exposed>>

\* Requests arrive in the order of their numbers; the numbers above MaxInits
\* are a second series (the logs-stream requests of LogSpec).
Arrives(r) ==
    req[r].pc = "idle"
        /\ (IF r \in {1, MaxInits + 1} THEN TRUE ELSE req[r - 1].pc # "idle")

NewReq(pathname, method, origin, route) ==
    [IdleReq EXCEPT !.path = pathname, !.method = method, !.origin = origin,
                    !.route = route, !.sid = SandboxMatch(pathname).id]

\* a timeout that rejects: the route's catch answers 500
AfterWaitTimeoutRejects(rq, by, who) ==
    IF by = "timer"
    THEN [rq EXCEPT !.pc = "done", !.resp = ErrorResponse, !.endedBy = by, !.wokenBy = who]
    ELSE [rq EXCEPT !.pc = "done", !.resp = WsUrlResponse(rq.origin, rq.sid),
                    !.endedBy = by, !.wokenBy = who]

\* The handler calls sandbox.exposePort(3333, ...) and awaits it.  History:
\* exposeVia, the branch that made the call, and wasExposed, whether port 3333
\* was exposed at the moment of the call.
CallExposePort(rq, via) ==
    [rq EXCEPT !.pc = "expose",
               !.calls = Append(rq.calls, Call("exposePort", 0, "3333")),
               !.answer = <<>>,
               !.exposeVia = via,
               !.wasExposed = IF exposed[rq.sid] # None THEN "yes" ELSE "no"]

\* the handler calls sandbox.getExposedPorts(hostname) and awaits it at pc
CallGetExposedPorts(rq, pc) ==
    [rq EXCEPT !.pc = pc, !.answer = <<>>,
               !.calls = Append(rq.calls, Call("getExposedPorts", 0, ""))]

\* The expose stage of /ws-url in the single-sandbox workers, up to its first
\* await: the second revision asks getExposedPorts first when the SDK has it.
BeginExpose(rq) ==
    IF revision = 3 THEN CallExposePort(rq, "unconditional")
    ELSE IF sdk.getExposedPorts THEN CallGetExposedPorts(rq, "ports")
    ELSE CallExposePort(rq, "no function")

\* The request continues after `await Promise.race([viteReadyPromise, timeout])`:
\* initialized.add(sandboxId) (done by the caller), then the response in the
\* per-sandbox worker and the expose stage in the single-sandbox workers.
AfterWait(rq, by, who) ==
    IF revision = 1
    THEN [rq EXCEPT !.pc = "done", !.resp = WsUrlResponse(rq.origin, rq.sid),
                    !.endedBy = by, !.wokenBy = who]
    ELSE BeginExpose([rq EXCEPT !.endedBy = by, !.wokenBy = who])

\* a ws-url route that marks its sandbox as initialized on arrival
ReceiveWsUrlAndMarks(r, pathname, method, origin) ==
    /\ Arrives(r)
    /\ Route(pathname, method) = "ws-url"
    /\ req' = [req EXCEPT ![r] =
                 [NewReq(pathname, method, origin, "ws-url") EXCEPT
                     !.pc = "list", !.calls = <<Call("listProcesses", 0, "")>>]]
    /\ initialized' = initialized \cup {SandboxMatch(pathname).id}
    /\ UNCHANGED <<processLogs, viteReadyPromise, viteReadyResolve, resolvedBy, logSource,
                   reader, stream, revision, sdk>>
    /\ UnchangedSandbox

\* GET /sandbox/:sandboxId/ws-url up to `await sandbox.listProcesses()`
ReceiveWsUrl(r, pathname, method, origin) ==
    /\ Arrives(r)
    /\ Route(pathname, method) = "ws-url"
    /\ req' = [req EXCEPT ![r] =
                 [NewReq(pathname, method, origin, "ws-url") EXCEPT
                     !.pc = "list", !.calls = <<Call("listProcesses", 0, "")>>]]
    /\ UNCHANGED <<reader, stream, revision, sdk>>
    /\ UnchangedModule /\ UnchangedSandbox

\* the steps of the worker that runs
StepsOfInit == IF revision = 1 THEN InitSteps ELSE SingleInitSteps

\* The start of an initialization once the kill loop is over: the readiness
\* promise is created and the first writeFile is called.
BeginInit(rq) ==
    [rq EXCEPT !.pc = "init", !.k = 1, !.calls = Append(rq.calls, StepsOfInit[1])]

\* a handler that makes a new readiness promise also when it skips the init
ListProcessesReturnNewPromise(r) ==
    /\ req[r].pc = "list"
    /\ LET sandboxId == req[r].sid
           processes == procs[sandboxId]
           needsInit == NeedsInit(processes, sandboxId)
           rq == [req[r] EXCEPT !.processes = processes,
                                !.needsInit = IF needsInit THEN "yes" ELSE "no",
                                !.wasInitialized = sandboxId \in initialized]
           marked == IF HasViteProcess(processes)
                     THEN initialized \cup {sandboxId} ELSE initialized
       IN  IF ~needsInit
           THEN /\ initialized' = marked
                /\ req' = [req EXCEPT ![r] =
                             [rq EXCEPT !.pc = "done",
                                        !.resp = WsUrlResponse(rq.origin, sandboxId)]]
                /\ viteReadyPromise' = r
                /\ viteReadyResolve' = r
           ELSE IF Len(processes) > 0
           THEN /\ initialized' = marked
                /\ req' = [req EXCEPT ![r] =
                             [rq EXCEPT !.pc = "kill", !.k = 1,
                                        !.calls = Append(rq.calls,
                                            Call("killProcess", processes[1].id, ""))]]
                /\ UNCHANGED <<viteReadyPromise, viteReadyResolve>>
           ELSE /\ initialized' = marked
                /\ viteReadyPromise' = r
                /\ viteReadyResolve' = r
                /\ req' = [req EXCEPT ![r] = BeginInit(rq)]
    /\ UNCHANGED <<processLogs, resolvedBy, logSource, reader, stream, revision, sdk>>
    /\ UnchangedSandbox

\* listProcesses returns: the needsInit decision, and what runs up to the next await
ListProcessesReturn(r) ==
    /\ req[r].pc = "list"
    /\ LET sandboxId == req[r].sid
           processes == procs[sandboxId]
           needsInit == NeedsInit(processes, sandboxId)
           rq == [req[r] EXCEPT !.processes = processes,
                                !.needsInit = IF needsInit THEN "yes" ELSE "no",
                                !.wasInitialized = sandboxId \in initialized]
           marked == IF HasViteProcess(processes)
                     THEN initialized \cup {sandboxId} ELSE initialized
       IN  IF ~needsInit
           THEN /\ initialized' = marked
                /\ req' = [req EXCEPT ![r] =
                             [rq EXCEPT !.pc = "done",
                                        !.resp = WsUrlResponse(rq.origin, sandboxId)]]
                /\ UNCHANGED <<viteReadyPromise, viteReadyResolve>>
           ELSE IF Len(processes) > 0
           THEN /\ initialized' = marked
                /\ req' = [req EXCEPT ![r] =
                             [rq EXCEPT !.pc = "kill", !.k = 1,
                                        !.calls = Append(rq.calls,
                                            Call("killProcess", processes[1].id, ""))]]
                /\ UNCHANGED <<viteReadyPromise, viteReadyResolve>>
           ELSE /\ initialized' = marked
                /\ viteReadyPromise' = r
                /\ viteReadyResolve' = r
                /\ req' = [req EXCEPT ![r] = BeginInit(rq)]
    /\ UNCHANGED <<processLogs, resolvedBy, logSource, reader, stream, revision, sdk>>
    /\ UnchangedSandbox

\* the handler awaits a call inside the try block of the expose stage of /ws-url
\* (second revision): getExposedPorts, or the exposePort that follows its answer
InExposeTry(rq) ==
    \/ rq.pc = "ports"
    \/ rq.pc = "expose" /\ rq.route = "ws-url" /\ rq.exposeVia = "checked"

\* a catch block that marks the sandbox as initialized before it answers 500
SdkThrowsAndMarks(r) ==
    /\ req[r].pc \in {"list", "init", "expose", "dports", "lookup", "proxy"}
    /\ ~InExposeTry(req[r])
    /\ req' = [req EXCEPT ![r].pc = "done", ![r].resp = ErrorResponse]
    /\ initialized' = initialized \cup {req[r].sid}
    /\ UNCHANGED <<processLogs, viteReadyPromise, viteReadyResolve, resolvedBy, logSource,
                   reader, stream, revision, sdk>>
    /\ UnchangedSandbox

\* a call awaited inside the route's try block throws (for exposePort: also the
\* SDK's refusal of a port that is already exposed): the catch answers 500
SdkThrows(r) ==
    /\ req[r].pc \in {"list", "init", "expose", "dports", "lookup", "proxy"}
    /\ ~InExposeTry(req[r])
    /\ req' = [req EXCEPT ![r].pc = "done", ![r].resp = ErrorResponse]
    /\ UNCHANGED <<reader, stream, revision, sdk>>
    /\ UnchangedModule /\ UnchangedSandbox

\* for (const process of processes): whether a process is left after the k-th
KillLoopSkipsLast(rq) == rq.k < Len(rq.processes) - 1

KillLoopContinues(rq) == rq.k < Len(rq.processes)

\* a kill loop without the try/catch: a failed kill ends the request with 500
KillProcessReturnAborts(r, killed) ==
    /\ req[r].pc = "kill"
    /\ LET rq == req[r]
           p == rq.processes[rq.k]
       IN  /\ procs' = IF killed THEN [procs EXCEPT ![rq.sid] = RemoveId(@, p.id)]
                       ELSE procs
           /\ IF ~killed
              THEN /\ req' = [req EXCEPT ![r].pc = "done", ![r].resp = ErrorResponse]
                   /\ UNCHANGED <<viteReadyPromise, viteReadyResolve>>
              ELSE IF KillLoopContinues(rq)
              THEN /\ req' = [req EXCEPT ![r] =
                                [rq EXCEPT !.k = rq.k + 1,
                                           !.calls = Append(rq.calls,
                                               Call("killProcess",
                                                    rq.processes[rq.k + 1].id, ""))]]
                   /\ UNCHANGED <<viteReadyPromise, viteReadyResolve>>
              ELSE /\ viteReadyPromise' = r
                   /\ viteReadyResolve' = r
                   /\ req' = [req EXCEPT ![r] = BeginInit(rq)]
    /\ UNCHANGED <<initialized, processLogs, resolvedBy, logSource, reader, stream,
                   files, exposed, revision, sdk>>

\* killProcess returns (killed) or throws (caught and logged); then the next
\* process of the list, or the start of the initialization
KillProcessReturn(r, killed) ==
    /\ req[r].pc = "kill"
    /\ LET rq == req[r]
           p == rq.processes[rq.k]
       IN  /\ procs' = IF killed THEN [procs EXCEPT ![rq.sid] = RemoveId(@, p.id)]
                       ELSE procs
           /\ IF KillLoopContinues(rq)
              THEN /\ req' = [req EXCEPT ![r] =
                                [rq EXCEPT !.k = rq.k + 1,
                                           !.calls = Append(rq.calls,
                                               Call("killProcess",
                                                    rq.processes[rq.k + 1].id, ""))]]
                   /\ UNCHANGED <<viteReadyPromise, viteReadyResolve>>
              ELSE /\ viteReadyPromise' = r
                   /\ viteReadyResolve' = r
                   /\ req' = [req EXCEPT ![r] = BeginInit(rq)]
    /\ UNCHANGED <<initialized, processLogs, resolvedBy, logSource, reader, stream,
                   files, exposed, revision, sdk>>

\* writeFile or exec('bun install') returns: the next step is called
InitStepReturn(r) ==
    /\ req[r].pc = "init"
    /\ req[r].k < Len(StepsOfInit)
    /\ LET rq == req[r]
           k == rq.k
           step == StepsOfInit[k]
       IN  /\ files' = IF step.op = "writeFile"
                       THEN [files EXCEPT ![rq.sid][step.arg] = InitFile(step.arg, rq.sid)]
                       ELSE files
           /\ req' = [req EXCEPT ![r] =
                        [rq EXCEPT !.k = k + 1,
                                   !.calls = Append(rq.calls, StepsOfInit[k + 1])]]
    /\ UNCHANGED <<reader, stream, procs, exposed, revision, sdk>>
    /\ UnchangedModule

\* a handler that adds the sandbox id to `initialized` before its readiness wait
StartProcessReturnMarksFirst(r) ==
    /\ req[r].pc = "init"
    /\ req[r].k = Len(StepsOfInit)
    /\ LET rq == [req[r] EXCEPT !.awaited = viteReadyPromise,
                                !.calls = Append(req[r].calls,
                                                 Call("streamProcessLogs", r, ""))]
       IN  /\ procs' = [procs EXCEPT ![rq.sid] =
                          Append(@, [id |-> r, command |-> Some(CmdBunRunDev)])]
           /\ reader' = [reader EXCEPT ![r].state = "reading"]
           /\ IF resolvedBy[viteReadyPromise] # 0
              THEN \* the promise read here was already resolved: no wait
                   /\ req' = [req EXCEPT ![r] =
                                AfterWait(rq, "resolved", resolvedBy[viteReadyPromise])]
                   /\ initialized' = initialized \cup {rq.sid}
              ELSE /\ req' = [req EXCEPT ![r] = [rq EXCEPT !.pc = "wait"]]
                   /\ initialized' = initialized \cup {rq.sid}
    /\ UNCHANGED <<processLogs, viteReadyPromise, viteReadyResolve, resolvedBy, logSource,
                   stream, files, exposed, revision, sdk>>

\* startProcess returns: the log reader starts (it calls streamProcessLogs),
\* the timer is set and the request awaits Promise.race([viteReadyPromise, timeout])
StartProcessReturn(r) ==
    /\ req[r].pc = "init"
    /\ req[r].k = Len(StepsOfInit)
    /\ LET rq == [req[r] EXCEPT !.awaited = viteReadyPromise,
                                !.calls = Append(req[r].calls,
                                                 Call("streamProcessLogs", r, ""))]
       IN  /\ procs' = [procs EXCEPT ![rq.sid] =
                          Append(@, [id |-> r, command |-> Some(CmdBunRunDev)])]
           /\ reader' = [reader EXCEPT ![r].state = "reading"]
           /\ IF resolvedBy[viteReadyPromise] # 0
              THEN \* the promise read here was already resolved: no wait
                   /\ req' = [req EXCEPT ![r] =
                                AfterWait(rq, "resolved", resolvedBy[viteReadyPromise])]
                   /\ initialized' = initialized \cup {rq.sid}
              ELSE /\ req' = [req EXCEPT ![r] = [rq EXCEPT !.pc = "wait"]]
                   /\ UNCHANGED initialized
    /\ UNCHANGED <<processLogs, viteReadyPromise, viteReadyResolve, resolvedBy, logSource,
                   stream, files, exposed, revision, sdk>>

\* the 30-second timer of a waiting request fires
TimerFires(r) ==
    /\ req[r].pc = "wait"
    /\ req' = [req EXCEPT ![r] = AfterWait(req[r], "timer", 0)]
    /\ initialized' = initialized \cup {req[r].sid}
    /\ UNCHANGED <<processLogs, viteReadyPromise, viteReadyResolve, resolvedBy, logSource,
                   reader, stream, revision, sdk>>
    /\ UnchangedSandbox

\* One event of `for await (const event of parseSSEStream(logStream))` in the
\* log reader request r started: trim, store, and the readiness check.  When the
\* check resolves the promise, the requests awaiting it continue in the same
\* turn of the event loop.
ReaderEvent(r, event) ==
    /\ reader[r].state = "reading"
    /\ LET sandboxId == req[r].sid
           logLine == LogLine(event)
           stored == Len(logLine) > 0
           ready == /\ stored
                    /\ viteReadyResolve # 0
                    /\ sandboxId \notin initialized
                    /\ IsReadyLine(logLine)
           woken == {q \in ReqIds : req[q].pc = "wait" /\ req[q].awaited = viteReadyResolve}
       IN  /\ stored => Len(processLogs) < MaxLogs
           /\ processLogs' = IF stored THEN Append(processLogs, logLine) ELSE processLogs
           /\ logSource' = IF stored THEN Append(logSource, sandboxId) ELSE logSource
           /\ IF ready
              THEN /\ resolvedBy' = [resolvedBy EXCEPT ![viteReadyResolve] = r]
                   /\ viteReadyResolve' = 0
                   /\ req' = [q \in ReqIds |->
                                IF q \in woken THEN AfterWait(req[q], "ready", r)
                                ELSE req[q]]
                   /\ initialized' = initialized \cup {req[q].sid : q \in woken}
              ELSE UNCHANGED <<resolvedBy, viteReadyResolve, req, initialized>>
    /\ UNCHANGED <<viteReadyPromise, reader, stream, revision, sdk>>
    /\ UnchangedSandbox

\* The reader ends: streamProcessLogs or the stream throws (the reader's catch
\* logs it), or the stream of a finished process ends.
ReaderStops(r) ==
    /\ reader[r].state = "reading"
    /\ reader' = [reader EXCEPT ![r].state = "stopped"]
    /\ UNCHANGED <<req, stream, revision, sdk>>
    /\ UnchangedModule /\ UnchangedSandbox

\* a process of a sandbox exits by itself
ProcessExits(s, i) ==
    /\ i \in 1 .. Len(procs[s])
    /\ procs' = [procs EXCEPT ![s] = RemoveAt(@, i)]
    /\ UNCHANGED <<req, reader, stream, files, exposed, revision, sdk>>
    /\ UnchangedModule

\* a loop that starts one entry late
LogEventsSkipFirst(from, to) ==
    [i \in 1 .. (to - from - 1) |->
        [event |-> "vite:log", log |-> processLogs[from + i + 1], index |-> from + i]]

\* the events a logs-stream enqueues for processLogs[from .. to-1]
LogEventsFrom(from, to) ==
    [i \in 1 .. (to - from) |->
        [event |-> "vite:log", log |-> processLogs[from + i], index |-> from + i - 1]]

\* GET /sandbox/:sandboxId/logs-stream: the stream's start() sends the existing
\* logs and sets the poll interval; the response is returned
ReceiveLogsStream(r, pathname, method, origin) ==
    /\ Arrives(r)
    /\ Route(pathname, method) = "logs-stream"
    /\ stream' = [stream EXCEPT ![r] =
                    [state |-> "open", lastLogIndex |-> Len(processLogs),
                     emitted |-> LogEventsFrom(0, Len(processLogs)),
                     atStart |-> Len(processLogs)]]
    /\ req' = [req EXCEPT ![r] =
                 [NewReq(pathname, method, origin, "logs-stream") EXCEPT
                     !.pc = "done",
                     !.resp = [NoResp EXCEPT !.status = 200, !.kind = "event-stream"]]]
    /\ UNCHANGED <<reader, revision, sdk>>
    /\ UnchangedModule /\ UnchangedSandbox

\* a poll callback whose interval cancel() did not clear
PollTickAfterCancel(r) ==
    /\ stream[r].state \in {"open", "cancelled"}
    /\ stream' = IF stream[r].lastLogIndex < Len(processLogs)
                 THEN [stream EXCEPT
                          ![r].emitted = @ \o LogEventsFrom(stream[r].lastLogIndex,
                                                            Len(processLogs)),
                          ![r].lastLogIndex = Len(processLogs)]
                 ELSE stream
    /\ UNCHANGED <<req, reader, revision, sdk>>
    /\ UnchangedModule /\ UnchangedSandbox

\* a poll callback that forgets to advance lastLogIndex
PollTickKeepsIndex(r) ==
    /\ stream[r].state = "open"
    /\ stream' = IF stream[r].lastLogIndex < Len(processLogs)
                 THEN [stream EXCEPT
                          ![r].emitted = @ \o LogEventsFrom(stream[r].lastLogIndex,
                                                            Len(processLogs))]
                 ELSE stream
    /\ UNCHANGED <<req, reader, revision, sdk>>
    /\ UnchangedModule /\ UnchangedSandbox

\* the setInterval callback of an open logs-stream (every 500 ms)
PollTick(r) ==
    /\ stream[r].state = "open"
    /\ stream' = IF stream[r].lastLogIndex < Len(processLogs)
                 THEN [stream EXCEPT
                          ![r].emitted = @ \o LogEventsFrom(stream[r].lastLogIndex,
                                                            Len(processLogs)),
                          ![r].lastLogIndex = Len(processLogs)]
                 ELSE stream
    /\ UNCHANGED <<req, reader, revision, sdk>>
    /\ UnchangedModule /\ UnchangedSandbox

\* the client closes a logs-stream: cancel() clears the interval
CancelStream(r) ==
    /\ stream[r].state = "open"
    /\ stream' = [stream EXCEPT ![r].state = "cancelled"]
    /\ UNCHANGED <<req, reader, revision, sdk>>
    /\ UnchangedModule /\ UnchangedSandbox

\* a request that matches no route
ReceiveNotFound(r, pathname, method, origin) ==
    /\ Arrives(r)
    /\ Route(pathname, method) = "notfound"
    /\ req' = [req EXCEPT ![r] =
                 [NewReq(pathname, method, origin, "notfound") EXCEPT
                     !.pc = "done", !.resp = NotFoundResponse]]
    /\ UNCHANGED <<reader, stream, revision, sdk>>
    /\ UnchangedModule /\ UnchangedSandbox

\* the responses proxyToSandbox may return
ProxyResponses == {[NoResp EXCEPT !.status = st, !.kind = "proxied"] : st \in {200, 404}}

\* a proxied request that goes on to mark the sandbox of its path
ReceiveProxiedAndMarks(r, pathname, method, origin) ==
    /\ Arrives(r)
    /\ \E proxyResponse \in ProxyResponses :
          req' = [req EXCEPT ![r] =
                    [IdleReq EXCEPT !.path = pathname, !.method = method,
                                    !.origin = origin, !.route = "proxied",
                                    !.pc = "done", !.answer = <<proxyResponse>>,
                                    !.resp = proxyResponse]]
    /\ initialized' = initialized \cup {SandboxMatch(pathname).id}
    /\ UNCHANGED <<processLogs, viteReadyPromise, viteReadyResolve, resolvedBy, logSource,
                   reader, stream, revision, sdk>>
    /\ UnchangedSandbox

\* proxyToSandbox answers the request (a preview URL): fetch returns its response
ReceiveProxied(r, pathname, method, origin) ==
    /\ Arrives(r)
    /\ \E proxyResponse \in ProxyResponses :
          req' = [req EXCEPT ![r] =
                    [IdleReq EXCEPT !.path = pathname, !.method = method,
                                    !.origin = origin, !.route = "proxied",
                                    !.pc = "done", !.answer = <<proxyResponse>>,
                                    !.resp = proxyResponse]]
    /\ UNCHANGED <<reader, stream, revision, sdk>>
    /\ UnchangedModule /\ UnchangedSandbox

\* GET / or /index.html: return env.ASSETS.fetch(request)
ReceiveRoot(r, pathname, method, origin) ==
    /\ Arrives(r)
    /\ Route(pathname, method) = "root"
    /\ req' = [req EXCEPT ![r] =
                 [NewReq(pathname, method, origin, "root") EXCEPT
                     !.pc = "done",
                     !.resp = [NoResp EXCEPT !.status = 200, !.kind = "assets"]]]
    /\ UNCHANGED <<reader, stream, revision, sdk>>
    /\ UnchangedModule /\ UnchangedSandbox

\* the bodies of a test-hmr request: not JSON, {}, {count: 0}, {count: 3}
Bodies == {[valid |-> FALSE, count |-> None], [valid |-> TRUE, count |-> None],
           [valid |-> TRUE, count |-> Some(0)], [valid |-> TRUE, count |-> Some(3)]}

\* the file test-hmr writes
TestHmrFile == "/workspace/main.js"

\* a default of 1 for a missing count
CountOrOne(body) == IF body.count = None THEN 1 ELSE body.count[1]

\* const count = body.count || 0
CountOf(body) == IF body.count = None THEN 0 ELSE body.count[1]

\* Response.json({ success: false, error }, { status: 500 })
HmrErrorResponse == [NoResp EXCEPT !.status = 500, !.kind = "hmr-error"]

\* POST /sandbox/:sandboxId/test-hmr up to `await sandbox.writeFile(...)`;
\* request.json() throws on a body that is not JSON (body: the body of the
\* request, history)
ReceiveTestHmr(r, pathname, method, origin, body) ==
    /\ Arrives(r)
    /\ Route(pathname, method) = "test-hmr"
    /\ req' = [req EXCEPT ![r] =
                 IF body.valid
                 THEN [NewReq(pathname, method, origin, "test-hmr") EXCEPT
                          !.pc = "hmr", !.k = CountOf(body), !.body = Some(body),
                          !.calls = <<Call("writeFile", 0, "/workspace/main.js")>>]
                 ELSE [NewReq(pathname, method, origin, "test-hmr") EXCEPT
                          !.pc = "done", !.body = Some(body),
                          !.resp = HmrErrorResponse]]
    /\ UNCHANGED <<reader, stream, revision, sdk>>
    /\ UnchangedModule /\ UnchangedSandbox

\* writeFile of test-hmr returns: { success: true, count }
TestHmrWriteReturn(r) ==
    /\ req[r].pc = "hmr"
    /\ files' = [files EXCEPT ![req[r].sid]["/workspace/main.js"] =
                    [kind |-> "main-count", text |-> <<>>, count |-> req[r].k]]
    /\ req' = [req EXCEPT ![r].pc = "done",
                          ![r].resp = [NoResp EXCEPT !.status = 200, !.kind = "hmr-ok",
                                                     !.count = req[r].k]]
    /\ UNCHANGED <<reader, stream, procs, exposed, revision, sdk>>
    /\ UnchangedModule

\* a catch block that answers with the { error } body of the other routes
TestHmrWriteThrowsPlain(r) ==
    /\ req[r].pc = "hmr"
    /\ req' = [req EXCEPT ![r].pc = "done", ![r].resp = ErrorResponse]
    /\ UNCHANGED <<reader, stream, revision, sdk>>
    /\ UnchangedModule /\ UnchangedSandbox

\* writeFile of test-hmr throws
TestHmrWriteThrows(r) ==
    /\ req[r].pc = "hmr"
    /\ req' = [req EXCEPT ![r].pc = "done", ![r].resp = HmrErrorResponse]
    /\ UNCHANGED <<reader, stream, revision, sdk>>
    /\ UnchangedModule /\ UnchangedSandbox

\* a preview route that marks its sandbox as initialized
ReceivePreviewAndMarks(r, pathname, method, origin) ==
    /\ Arrives(r)
    /\ Route(pathname, method) = "preview"
    /\ req' = [req EXCEPT ![r] =
                 [NewReq(pathname, method, origin, "preview") EXCEPT
                     !.pc = "fetch", !.calls = <<Call("containerFetch", 0, "3333")>>]]
    /\ initialized' = initialized \cup {SandboxMatch(pathname).id}
    /\ UNCHANGED <<processLogs, viteReadyPromise, viteReadyResolve, resolvedBy, logSource,
                   reader, stream, revision, sdk>>
    /\ UnchangedSandbox

\* /sandbox/:sandboxId/preview* up to `await sandbox.containerFetch(request, 3333)`
ReceivePreview(r, pathname, method, origin) ==
    /\ Arrives(r)
    /\ Route(pathname, method) = "preview"
    /\ req' = [req EXCEPT ![r] =
                 [NewReq(pathname, method, origin, "preview") EXCEPT
                     !.pc = "fetch", !.calls = <<Call("containerFetch", 0, "3333")>>]]
    /\ UNCHANGED <<reader, stream, revision, sdk>>
    /\ UnchangedModule /\ UnchangedSandbox

\* a response of the Vite server in the container
ContainerResponse(status) == [NoResp EXCEPT !.status = status, !.kind = "container"]

\* containerFetch returns the container's response (kept in answer, history),
\* which fetch returns
ContainerFetchReturn(r, status) ==
    /\ req[r].pc = "fetch"
    /\ req' = [req EXCEPT ![r].pc = "done",
                          ![r].answer = <<ContainerResponse(status)>>,
                          ![r].resp = ContainerResponse(status)]
    /\ UNCHANGED <<reader, stream, revision, sdk>>
    /\ UnchangedModule /\ UnchangedSandbox

\* containerFetch throws: Response.json({ error }, { status: 500 })
ContainerFetchThrows(r) ==
    /\ req[r].pc = "fetch"
    /\ req' = [req EXCEPT ![r].pc = "done", ![r].resp = ErrorResponse]
    /\ UNCHANGED <<reader, stream, revision, sdk>>
    /\ UnchangedModule /\ UnchangedSandbox

\* ------------------------------------ the single-sandbox workers (V2 and V3)
\* getSandbox(env.Sandbox, 'vite-echo-server', { normalizeId: true })
ViteEchoServer == <<"vite-echo-server">>

StrDirect == <<"/", "d", "i", "r", "e", "c", "t">>
StrHttps == <<"h", "t", "t", "p", "s", ":", "/", "/">>
StrWss == <<"w", "s", "s", ":", "/", "/">>
StrHttp == <<"h", "t", "t", "p", ":", "/", "/">>
StrWs == <<"w", "s", ":", "/", "/">>

\* the URLs exposePort may give the exposure
UrlHttps == StrHttps \o <<"p", "/">>
UrlHttp == StrHttp \o <<"p", "/">>
UrlHttpPort == StrHttp \o <<"p", ":", "8", "/">>
ExposedUrls == {UrlHttps, UrlHttp, UrlHttpPort}

\* the first index at which sub occurs in s, 0 if it does not
IndexOf(s, sub) ==
    IF Includes(s, sub)
    THEN CHOOSE i \in 1 .. Len(s) :
             /\ SubSeq(s, i, i + Len(sub) - 1) = sub
             /\ \A j \in 1 .. (i - 1) : SubSeq(s, j, j + Len(sub) - 1) # sub
    ELSE 0

\* String.prototype.replace with a string pattern: the first occurrence only
Replace(s, sub, by) ==
    LET i == IndexOf(s, sub)
    IN  IF i = 0 THEN s
        ELSE SubSeq(s, 1, i - 1) \o by \o SubSeq(s, i + Len(sub), Len(s))

\* a conversion of 'https://' only
WsUrlOfHttpsOnly(exposedAt) == Replace(exposedAt, StrHttps, StrWss)

\* exposedAt.replace('https://', 'wss://').replace('http://', 'ws://')
WsUrlOf(exposedAt) == Replace(Replace(exposedAt, StrHttps, StrWss), StrHttp, StrWs)

\* the routes of the single-sandbox workers, in the order of the code
RouteSingle(pathname, method) ==
    IF pathname = StrWsUrl THEN "ws-url"
    ELSE IF pathname = <<"/">> \/ pathname = StrIndexHtml THEN "root"
    ELSE IF pathname = StrTestHmr /\ method = "POST" THEN "test-hmr"
    ELSE IF pathname = StrLogsStream THEN "logs-stream"
    ELSE IF revision = 2 /\ StartsWith(pathname, StrDirect) THEN "direct"
    ELSE IF revision = 3 /\ pathname = StrDirect THEN "direct"
    ELSE "notfound"

\* Response.json({ url: wsUrl, previewUrl, rawPreviewUrl?, message })
SingleWsUrlResponse(origin, exposedAt) ==
    IF revision = 2
    THEN [NoResp EXCEPT !.status = 200, !.kind = "json", !.url = WsUrlOf(exposedAt),
                        !.previewUrl = origin \o StrDirect, !.rawPreviewUrl = exposedAt]
    ELSE [NoResp EXCEPT !.status = 200, !.kind = "json", !.url = WsUrlOf(exposedAt),
                        !.previewUrl = exposedAt]

NewSingleReq(pathname, method, origin, route) ==
    [IdleReq EXCEPT !.path = pathname, !.method = method, !.origin = origin,
                    !.route = route, !.sid = ViteEchoServer]

InitSingle ==
    /\ initialized = {}
    /\ processLogs = <<>>
    /\ viteReadyPromise = 0
    /\ viteReadyResolve = 0
    /\ resolvedBy = [p \in ReqIds |-> 0]
    /\ req = [r \in ReqIds |-> IdleReq]
    /\ reader = [r \in ReqIds |-> [state |-> "none"]]
    /\ stream = [r \in ReqIds |-> [state |-> "none", lastLogIndex |-> 0, emitted |-> <<>>, atStart |-> 0]]
    /\ procs \in [{ViteEchoServer} -> {<<>>, <<OldVite>>}]
    /\ files = [s \in {ViteEchoServer} |-> [f \in FilePaths |-> Absent]]
    /\ logSource = <<>>
    /\ exposed = [s \in {ViteEchoServer} |-> None]
    /\ revision \in {2, 3}
    /\ sdk \in [getExposedPorts : BOOLEAN]
    /\ revision = 3 => sdk.getExposedPorts

\* /ws-url up to its first await: the check of `initialized`, then listProcesses
\* (second revision), the first writeFile of the initialization, or the expose
\* stage
ReceiveWsUrlSingle(r, pathname, method, origin) ==
    /\ Arrives(r)
    /\ revision \in {2, 3}
    /\ RouteSingle(pathname, method) = "ws-url"
    /\ LET rq == [NewSingleReq(pathname, method, origin, "ws-url") EXCEPT
                     !.wasInitialized = ViteEchoServer \in initialized]
       IN  IF ViteEchoServer \in initialized
           THEN /\ req' = [req EXCEPT ![r] = BeginExpose([rq EXCEPT !.needsInit = "no"])]
                /\ UNCHANGED <<viteReadyPromise, viteReadyResolve>>
           ELSE IF revision = 2
           THEN /\ req' = [req EXCEPT ![r] =
                             [rq EXCEPT !.pc = "list",
                                        !.calls = <<Call("listProcesses", 0, "")>>]]
                /\ UNCHANGED <<viteReadyPromise, viteReadyResolve>>
           ELSE /\ viteReadyPromise' = r
                /\ viteReadyResolve' = r
                /\ req' = [req EXCEPT ![r] = BeginInit([rq EXCEPT !.needsInit = "yes"])]
    /\ UNCHANGED <<initialized, processLogs, resolvedBy, logSource, reader, stream,
                   revision, sdk>>
    /\ UnchangedSandbox

\* listProcesses of the second revision returns: a Vite process found marks the
\* sandbox initialized and skips the initialization
ListProcessesReturnSingle(r) ==
    /\ revision = 2
    /\ req[r].pc = "list"
    /\ LET processes == procs[req[r].sid]
           rq == [req[r] EXCEPT !.processes = processes]
       IN  IF HasViteProcess(processes)
           THEN /\ initialized' = initialized \cup {ViteEchoServer}
                /\ req' = [req EXCEPT ![r] = BeginExpose([rq EXCEPT !.needsInit = "no"])]
                /\ UNCHANGED <<viteReadyPromise, viteReadyResolve>>
           ELSE /\ viteReadyPromise' = r
                /\ viteReadyResolve' = r
                /\ req' = [req EXCEPT ![r] = BeginInit([rq EXCEPT !.needsInit = "yes"])]
                /\ UNCHANGED initialized
    /\ UNCHANGED <<processLogs, resolvedBy, logSource, reader, stream, revision, sdk>>
    /\ UnchangedSandbox

\* the response of /ws-url once exposedAt is known
FinishWsUrl(rq, exposedAt) ==
    [rq EXCEPT !.pc = "done", !.resp = SingleWsUrlResponse(rq.origin, exposedAt)]

\* The sandbox handles a getExposedPorts call: its answer, the exposure of port
\* 3333 at that moment, travels back to the worker.
SandboxListsPorts(r) ==
    /\ req[r].pc \in {"ports", "dports", "lookup"}
    /\ req[r].answer = <<>>
    /\ req' = [req EXCEPT ![r].answer = <<exposed[req[r].sid]>>]
    /\ UNCHANGED <<reader, stream, revision, sdk>>
    /\ UnchangedModule /\ UnchangedSandbox

\* getExposedPorts of /ws-url returns: reuse of the existing exposure of port
\* 3333, or exposePort
GetExposedPortsReturn(r) ==
    /\ req[r].pc = "ports"
    /\ req[r].answer # <<>>
    /\ LET existing == req[r].answer[1]
       IN  req' = [req EXCEPT ![r] =
                     IF existing # None
                     THEN FinishWsUrl([req[r] EXCEPT !.answer = <<>>], existing[1])
                     ELSE CallExposePort(req[r], "checked")]
    /\ UNCHANGED <<reader, stream, revision, sdk>>
    /\ UnchangedModule /\ UnchangedSandbox

\* getExposedPorts of /ws-url, or the exposePort that follows its answer, throws:
\* the inner catch falls back to exposePort
ExposeTryThrows(r) ==
    /\ InExposeTry(req[r])
    /\ req' = [req EXCEPT ![r] = CallExposePort(req[r], "catch")]
    /\ UNCHANGED <<reader, stream, revision, sdk>>
    /\ UnchangedModule /\ UnchangedSandbox

\* exposePort returns the new exposure (the SDK refuses a port that is already
\* exposed, see SdkThrows): /ws-url answers, /direct redirects (third revision)
\* or looks the exposure up (second revision)
ExposePortReturn(r, exposedAt) ==
    /\ req[r].pc = "expose"
    /\ exposed[req[r].sid] = None
    /\ exposed' = [exposed EXCEPT ![req[r].sid] = Some(exposedAt)]
    /\ req' = [req EXCEPT ![r] =
                 IF req[r].route = "ws-url" THEN FinishWsUrl(req[r], exposedAt)
                 ELSE IF revision = 3
                 THEN [req[r] EXCEPT !.pc = "done",
                                     !.resp = [NoResp EXCEPT !.status = 302,
                                                             !.kind = "redirect",
                                                             !.url = exposedAt]]
                 ELSE CallGetExposedPorts(req[r], "lookup")]
    /\ UNCHANGED <<reader, stream, procs, files, revision, sdk>>
    /\ UnchangedModule

\* /direct up to its first await
ReceiveDirect(r, pathname, method, origin) ==
    /\ Arrives(r)
    /\ revision \in {2, 3}
    /\ RouteSingle(pathname, method) = "direct"
    /\ LET rq == NewSingleReq(pathname, method, origin, "direct")
       IN  req' = [req EXCEPT ![r] =
                     IF revision = 3 THEN CallExposePort(rq, "unconditional")
                     ELSE IF sdk.getExposedPorts THEN CallGetExposedPorts(rq, "dports")
                     ELSE \* sandbox.getExposedPorts(hostname) is not a function
                          [rq EXCEPT !.pc = "done", !.resp = ErrorResponse]]
    /\ UNCHANGED <<reader, stream, revision, sdk>>
    /\ UnchangedModule /\ UnchangedSandbox

\* the first getExposedPorts of /direct returns: exposePort if port 3333 is not
\* among the exposed ports, then the second getExposedPorts
DirectPortsReturn(r) ==
    /\ req[r].pc = "dports"
    /\ req[r].answer # <<>>
    /\ req' = [req EXCEPT ![r] =
                 IF req[r].answer[1] = None THEN CallExposePort(req[r], "checked")
                 ELSE CallGetExposedPorts(req[r], "lookup")]
    /\ UNCHANGED <<reader, stream, revision, sdk>>
    /\ UnchangedModule /\ UnchangedSandbox

\* the second getExposedPorts of /direct returns: 500 'Port not exposed', or the
\* synthetic request is handed to proxyToSandbox
DirectLookupReturn(r) ==
    /\ req[r].pc = "lookup"
    /\ req[r].answer # <<>>
    /\ req' = [req EXCEPT ![r] =
                 IF req[r].answer[1] = None
                 THEN [req[r] EXCEPT !.pc = "done", !.answer = <<>>,
                                     !.resp = [NoResp EXCEPT !.status = 500,
                                                             !.kind = "Port not exposed"]]
                 ELSE [req[r] EXCEPT !.pc = "proxy", !.answer = <<>>,
                                     !.calls = Append(req[r].calls,
                                         Call("proxyToSandbox", 0, ""))]]
    /\ UNCHANGED <<reader, stream, revision, sdk>>
    /\ UnchangedModule /\ UnchangedSandbox

\* proxyToSandbox of /direct returns a response, or null: 500 'Proxy failed'
DirectProxyReturn(r, proxied) ==
    /\ req[r].pc = "proxy"
    /\ req' = [req EXCEPT ![r].pc = "done",
                          ![r].resp = IF proxied
                                      THEN [NoResp EXCEPT !.status = 200, !.kind = "proxied"]
                                      ELSE [NoResp EXCEPT !.status = 500,
                                                          !.kind = "Proxy failed"]]
    /\ UNCHANGED <<reader, stream, revision, sdk>>
    /\ UnchangedModule /\ UnchangedSandbox

\* no route of the single-sandbox worker matches: 404 'Not found'
ReceiveNotFoundSingle(r, pathname, method, origin) ==
    /\ Arrives(r)
    /\ revision \in {2, 3}
    /\ RouteSingle(pathname, method) = "notfound"
    /\ req' = [req EXCEPT ![r] =
                 [NewSingleReq(pathname, method, origin, "notfound") EXCEPT
                     !.pc = "done", !.resp = NotFoundResponse]]
    /\ UNCHANGED <<reader, stream, revision, sdk>>
    /\ UnchangedModule /\ UnchangedSandbox

\* ------------------------------------------------------------ specifications
\* The per-sandbox worker under ws-url requests for two sandboxes.
Next ==
    \/ \E r \in WsReqs, s \in Sandboxes : ReceiveWsUrl(r, WsUrlPath(s), "GET", StrOrigin)
    \/ \E r \in WsReqs : ListProcessesReturn(r)
    \/ \E r \in WsReqs : SdkThrows(r)
    \/ \E r \in WsReqs, killed \in BOOLEAN : KillProcessReturn(r, killed)
    \/ \E r \in WsReqs : InitStepReturn(r)
    \/ \E r \in WsReqs : StartProcessReturn(r)
    \/ \E r \in WsReqs : TimerFires(r)
    \/ \E r \in WsReqs, event \in LogEvents : ReaderEvent(r, event)
    \/ \E r \in WsReqs : ReaderStops(r)
    \/ \E s \in Sandboxes, i \in 1 .. 2 : ProcessExits(s, i)

Spec == InitV1 /\ [][Next]_vars

\* the 30-second timer of a waiting request fires
FairSpec == Spec /\ \A r \in WsReqs : WF_vars(TimerFires(r))

\* The per-sandbox worker under ws-url and logs-stream requests, with sandboxes
\* that start empty and an SDK that does not throw.
InitLogs == InitV1 /\ procs = [s \in Sandboxes |-> <<>>]

NextLogs(inits, streams) ==
    \/ \E r \in inits, s \in Sandboxes : ReceiveWsUrl(r, WsUrlPath(s), "GET", StrOrigin)
    \/ \E r \in streams, s \in Sandboxes :
          ReceiveLogsStream(r, LogsStreamPath(s), "GET", StrOrigin)
    \/ \E r \in inits : ListProcessesReturn(r)
    \/ \E r \in inits : InitStepReturn(r)
    \/ \E r \in inits : StartProcessReturn(r)
    \/ \E r \in inits : TimerFires(r)
    \/ \E r \in inits, event \in LogEvents : ReaderEvent(r, event)
    \/ \E r \in inits : ReaderStops(r)
    \/ \E r \in streams : PollTick(r)
    \/ \E r \in streams : CancelStream(r)

\* the initializations of two sandboxes and one logs-stream
LogSpec == InitLogs /\ [][NextLogs(WsReqs, {MaxInits + 1})]_vars

\* One initialization and its log reader, the streams, and the poll interval
\* of every open stream firing again and again.
FairLogSpec ==
    /\ InitLogs
    /\ [][NextLogs(1 .. MaxFairInits, StreamReqs)]_vars
    /\ \A r \in StreamReqs : WF_vars(PollTick(r))

\* The per-sandbox worker under requests of every shape for one sandbox that
\* starts empty.
RoutePaths ==
    {<<"/">>, StrIndexHtml, <<"/", "x">>,
     WsUrlPath(SandboxA), WsUrlPath(SandboxA) \o <<"/">>, WsUrlPath(<<>>),
     InitPath(SandboxA), TestHmrPath(SandboxA), LogsStreamPath(SandboxA),
     PreviewPath(SandboxA, <<>>), PreviewPath(SandboxA, StrMainJs),
     PreviewPath(SandboxA, <<"x">>)}
Methods == {"GET", "POST"}

NextRoute ==
    \/ \E r \in WsReqs, pathname \in RoutePaths, method \in Methods :
          ReceiveProxied(r, pathname, method, StrOrigin)
    \/ \E r \in WsReqs, pathname \in RoutePaths, method \in Methods :
          ReceiveWsUrl(r, pathname, method, StrOrigin)
    \/ \E r \in WsReqs, pathname \in RoutePaths, method \in Methods :
          ReceiveRoot(r, pathname, method, StrOrigin)
    \/ \E r \in WsReqs, pathname \in RoutePaths, method \in Methods, body \in Bodies :
          ReceiveTestHmr(r, pathname, method, StrOrigin, body)
    \/ \E r \in WsReqs, pathname \in RoutePaths, method \in Methods :
          ReceiveLogsStream(r, pathname, method, StrOrigin)
    \/ \E r \in WsReqs, pathname \in RoutePaths, method \in Methods :
          ReceivePreview(r, pathname, method, StrOrigin)
    \/ \E r \in WsReqs, pathname \in RoutePaths, method \in Methods :
          ReceiveNotFound(r, pathname, method, StrOrigin)
    \/ \E r \in WsReqs : ListProcessesReturn(r)
    \/ \E r \in WsReqs : SdkThrows(r)
    \/ \E r \in WsReqs : InitStepReturn(r)
    \/ \E r \in WsReqs : StartProcessReturn(r)
    \/ \E r \in WsReqs : TimerFires(r)
    \/ \E r \in WsReqs, event \in LogEvents : ReaderEvent(r, event)
    \/ \E r \in WsReqs : ReaderStops(r)
    \/ \E r \in WsReqs : TestHmrWriteReturn(r)
    \/ \E r \in WsReqs : TestHmrWriteThrows(r)
    \/ \E r \in WsReqs, status \in {200, 404} : ContainerFetchReturn(r, status)
    \/ \E r \in WsReqs : ContainerFetchThrows(r)
    \/ \E r \in WsReqs : PollTick(r)
    \/ \E r \in WsReqs : CancelStream(r)

RouteSpec == InitLogs /\ [][NextRoute]_vars

\* The single-sandbox workers under /ws-url and /direct requests.
SinglePaths == {StrWsUrl, StrDirect, StrDirect \o StrMainJs}

NextSingle ==
    \/ \E r \in WsReqs, pathname \in SinglePaths :
          ReceiveWsUrlSingle(r, pathname, "GET", StrOrigin)
    \/ \E r \in WsReqs, pathname \in SinglePaths :
          ReceiveDirect(r, pathname, "GET", StrOrigin)
    \/ \E r \in WsReqs, pathname \in SinglePaths :
          ReceiveNotFoundSingle(r, pathname, "GET", StrOrigin)
    \/ \E r \in WsReqs : ListProcessesReturnSingle(r)
    \/ \E r \in WsReqs : SdkThrows(r)
    \/ \E r \in WsReqs : InitStepReturn(r)
    \/ \E r \in WsReqs : StartProcessReturn(r)
    \/ \E r \in WsReqs : TimerFires(r)
    \/ \E r \in WsReqs, event \in LogEvents : ReaderEvent(r, event)
    \/ \E r \in WsReqs : ReaderStops(r)
    \/ \E r \in WsReqs : SandboxListsPorts(r)
    \/ \E r \in WsReqs : GetExposedPortsReturn(r)
    \/ \E r \in WsReqs : ExposeTryThrows(r)
    \/ \E r \in WsReqs, exposedAt \in ExposedUrls : ExposePortReturn(r, exposedAt)
    \/ \E r \in WsReqs : DirectPortsReturn(r)
    \/ \E r \in WsReqs : DirectLookupReturn(r)
    \/ \E r \in WsReqs, proxied \in BOOLEAN : DirectProxyReturn(r, proxied)

SingleSpec == InitSingle /\ [][NextSingle]_vars

\* The per-sandbox worker under ws-url and preview requests for two sandbox ids,
\* one of them with a single quote, with sandboxes that start empty.
BaseSandboxes == {SandboxA, SandboxQuote}

InitBase ==
    /\ initialized = {}
    /\ processLogs = <<>>
    /\ viteReadyPromise = 0
    /\ viteReadyResolve = 0
    /\ resolvedBy = [p \in ReqIds |-> 0]
    /\ req = [r \in ReqIds |-> IdleReq]
    /\ reader = [r \in ReqIds |-> [state |-> "none"]]
    /\ stream = [r \in ReqIds |-> [state |-> "none", lastLogIndex |-> 0, emitted |-> <<>>, atStart |-> 0]]
    /\ procs = [s \in BaseSandboxes |-> <<>>]
    /\ files = [s \in BaseSandboxes |-> [f \in FilePaths |-> Absent]]
    /\ logSource = <<>>
    /\ exposed = [s \in BaseSandboxes |-> None]
    /\ revision = 1
    /\ sdk = [getExposedPorts |-> TRUE]

NextBase ==
    \/ \E r \in WsReqs, s \in BaseSandboxes :
          ReceiveWsUrl(r, WsUrlPath(s), "GET", StrOrigin)
    \/ \E r \in WsReqs, s \in BaseSandboxes, sub \in {<<"/">>, StrMainJs} :
          ReceivePreview(r, PreviewPath(s, sub), "GET", StrOrigin)
    \/ \E r \in WsReqs : ListProcessesReturn(r)
    \/ \E r \in WsReqs : InitStepReturn(r)
    \/ \E r \in WsReqs : StartProcessReturn(r)
    \/ \E r \in WsReqs : TimerFires(r)
    \/ \E r \in WsReqs, event \in LogEvents : ReaderEvent(r, event)
    \/ \E r \in WsReqs, status \in {200, 404} : ContainerFetchReturn(r, status)

BaseSpec == InitBase /\ [][NextBase]_vars

\* ------------------------------------------------------------------ claims
\* the SDK calls of an initialization
InitOps == {"killProcess", "writeFile", "exec", "startProcess", "streamProcessLogs"}

\* request r ran (at least the start of) an initialization
InitRan(r) == \E i \in 1 .. Len(req[r].calls) : req[r].calls[i].op \in InitOps

\* request r has called startProcess
CalledStart(r) == \E i \in 1 .. Len(req[r].calls) : req[r].calls[i].op = "startProcess"

\* request r initialized and answered 200
InitAnswered(r) ==
    req[r].pc = "done" /\ req[r].needsInit = "yes" /\ req[r].resp.status = 200

\* a ready line of a process of sandbox sid is in the log buffer
ReadyLineSeen(sid) ==
    \E i \in 1 .. Len(processLogs) : logSource[i] = sid /\ IsReadyLine(processLogs[i])

\* C1: the 200 response of an initializing ws-url request is preceded by a ready
\* log line ('ready in', 'Local:' or 'localhost:3333') of that sandbox's process.
C1_ReadyLineBeforeResponse ==
    \A r \in WsReqs : InitAnswered(r) => ReadyLineSeen(req[r].sid)

\* C3: the readiness wait of an initializing request for sandbox A ends only on
\* its own timer or on a ready line read from a process of sandbox A, never on a
\* ready line of another sandbox's process.
C3_WaitEndsOnOwnSandbox ==
    \A r \in WsReqs :
        InitAnswered(r) =>
            \/ req[r].endedBy = "timer"
            \/ /\ req[r].wokenBy # 0
               /\ req[IF req[r].wokenBy = 0 THEN r ELSE req[r].wokenBy].sid = req[r].sid

\* C4: a request that has called startProcess('bun run dev') has called
\* listProcesses first and, before startProcess, killProcess for every process of
\* the list it got; no request calls startProcess without that kill loop.
C4_KillAllBeforeStart ==
    \A r \in WsReqs :
        \A i \in 1 .. Len(req[r].calls) :
            req[r].calls[i].op = "startProcess" =>
                /\ req[r].calls[1].op = "listProcesses"
                /\ req[r].needsInit = "yes"
                /\ \A j \in 1 .. Len(req[r].processes) :
                      \E m \in 1 .. (i - 1) :
                          req[r].calls[m] = Call("killProcess", req[r].processes[j].id, "")

\* C4 witness: a request called startProcess after a list of two processes
C4_Witness ==
    \E r \in WsReqs : CalledStart(r) /\ Len(req[r].processes) = 2

\* C5: every ws-url request calls listProcesses first, and once the list is back
\* the initialization runs exactly when no listed process has a command
\* containing 'vite' or 'bun run dev', whether or not the sandbox id is in
\* `initialized`.
C5_InitDecidedByProcessList ==
    \A r \in WsReqs :
        /\ req[r].pc # "idle" => req[r].calls[1].op = "listProcesses"
        /\ req[r].needsInit = "na" => ~InitRan(r)
        /\ req[r].needsInit # "na" => (InitRan(r) <=> ~HasViteProcess(req[r].processes))

\* C5 witness: an initialization ran although the sandbox id was in `initialized`
C5_Witness ==
    \E r \in WsReqs : InitRan(r) /\ req[r].wasInitialized

\* a ready line (of any process) is in the log buffer
AnyReadyLineSeen == \E i \in 1 .. Len(processLogs) : IsReadyLine(processLogs[i])

C6_StreamCarriesOwnSandbox ==
    \A r \in StreamReqs :
        (\E q \in WsReqs : req[q].sid = req[r].sid /\ reader[q].state # "none") =>
            \A i \in 1 .. Len(stream[r].emitted) :
                logSource[stream[r].emitted[i].index + 1] = req[r].sid

\* stream r has emitted the i-th entry of the log buffer
Emitted(r, i) ==
    \E j \in 1 .. Len(stream[r].emitted) :
        /\ stream[r].emitted[j].index = i - 1
        /\ stream[r].emitted[j].log = processLogs[i]

\* C7: every log line the reader stored (the trimmed data of an event, when not
\* empty), also one read after the ws-url response, is eventually emitted on
\* every logs-stream that is open, unless the stream is cancelled; the poll
\* timer of an open stream keeps firing.
C7_LinesEventuallyEmitted ==
    \A r \in StreamReqs :
        \A i \in 1 .. MaxLogs :
            [](stream[r].state = "open" /\ Len(processLogs) >= i
                 => <>(stream[r].state = "cancelled" \/ Emitted(r, i)))

\* C7 witness: an open stream has emitted, on a poll, a ready line that was read
\* after the initializing request had answered on its timer
C7_Witness ==
    \E r \in StreamReqs :
        /\ stream[r].state = "open"
        /\ req[1].pc = "done" /\ req[1].endedBy = "timer"
        /\ \E i \in 1 .. Len(processLogs) :
              /\ i > stream[r].atStart
              /\ IsReadyLine(processLogs[i])
              /\ Emitted(r, i)

\* C10: a request to /sandbox/:sandboxId/init that the worker itself handles is
\* answered 200 with previewUrl = origin + '/sandbox/{sandboxId}/preview/' and
\* sandboxId.
C10_InitRouteAnswers ==
    \A r \in WsReqs, sid \in Sandboxes :
        req[r].pc = "done" /\ req[r].route # "proxied" /\ req[r].path = InitPath(sid) =>
            req[r].resp = WsUrlResponse(req[r].origin, sid)

\* C8: in the single-sandbox worker that asks getExposedPorts (the second
\* revision), as long as no request has taken the fallback of the inner catch,
\* a request that calls exposePort(3333) after getExposedPorts answered does so
\* only while port 3333 is not exposed at the moment of the call.
C8_ExposeOnlyWhenNotExposed ==
    revision = 2 /\ (\A q \in WsReqs : req[q].exposeVia # "catch") =>
        \A r \in WsReqs : req[r].exposeVia = "checked" => req[r].wasExposed # "yes"

\* the requests whose handler has made call number i of SingleInitSteps
MadeStep(i) ==
    {r \in WsReqs : \E j \in 1 .. Len(req[r].calls) : req[r].calls[j] = SingleInitSteps[i]}

\* C9: in the single-sandbox workers, each step of the initialization (the file
\* writes, 'bun install', startProcess('bun run dev')) is performed at most once
\* over all /ws-url requests of one worker instance.
C9_InitAtMostOnce ==
    revision \in {2, 3} =>
        \A i \in 1 .. Len(SingleInitSteps) : Cardinality(MadeStep(i)) <= 1

\* the sub-paths of the preview requests
PreviewSubs == {<<>>, StrMainJs, <<"x">>}

\* C11: a request to /sandbox/X/preview followed by anything, when the worker's
\* routes handle it, calls containerFetch(request, 3333) on sandbox X and nothing
\* else, and the response it returns is the container's response, unchanged (or
\* the 500 of the catch when containerFetch throws), whether or not X is
\* initialized.
C11_PreviewProxied ==
    \A r \in WsReqs, sid \in Sandboxes, sub \in PreviewSubs :
        req[r].route # "proxied" /\ req[r].path = PreviewPath(sid, sub) =>
            /\ req[r].route = "preview"
            /\ req[r].sid = sid
            /\ req[r].calls = <<Call("containerFetch", 0, "3333")>>
            /\ req[r].pc \in {"fetch", "done"}
            /\ req[r].pc = "done" =>
                  \/ req[r].answer # <<>> /\ req[r].resp = req[r].answer[1]
                  \/ req[r].answer = <<>> /\ req[r].resp = ErrorResponse

\* C11 witness: the container's 404 came back for /sandbox/a/previewx while
\* sandbox a was not initialized and had no process
C11_Witness ==
    \E r \in WsReqs :
        /\ req[r].path = PreviewPath(SandboxA, <<"x">>)
        /\ req[r].pc = "done"
        /\ req[r].resp = ContainerResponse(404)
        /\ SandboxA \notin initialized
        /\ procs[SandboxA] = <<>>

\* the path of a URL of the origin
PathOf(url, origin) == Drop(url, Len(origin))

\* C12: once a ws-url request for sandbox X has initialized it and answered, the
\* base Vite reads from /workspace/vite.config.js is the path of the previewUrl
\* of the response, '/sandbox/X/preview/', and every path under that base is
\* routed to the preview route with sandbox id X.
C12_BaseMatchesRoute ==
    \A r \in WsReqs :
        InitAnswered(r) =>
            LET base == PathOf(req[r].resp.previewUrl, req[r].origin)
            IN  /\ base = StrSandbox \o req[r].sid \o StrPreview \o <<"/">>
                /\ BaseOf(files[req[r].sid]["/workspace/vite.config.js"].text) = Some(base)
                /\ \A sub \in PreviewSubs :
                      /\ Route(base \o sub, "GET") = "preview"
                      /\ SandboxMatch(base \o sub).id = req[r].sid

\* the path the initialization writes main.js to
InitMainJsPath == InitSteps[4].arg

RawUrlOf(resp) == IF revision = 2 THEN resp.rawPreviewUrl ELSE resp.previewUrl

\* C14: in the single-sandbox workers the `url` of a 200 /ws-url response is the
\* URL of the exposure of port 3333 with 'https://' turned into 'wss://' or
\* 'http://' into 'ws://' at its start, and host, port and path unchanged.
C14_UrlIsWebSocketUrl ==
    \A r \in WsReqs :
        req[r].route = "ws-url" /\ req[r].pc = "done" /\ req[r].resp.status = 200 =>
            LET raw == RawUrlOf(req[r].resp)
            IN  /\ exposed[req[r].sid] = Some(raw)
                /\ StartsWith(raw, StrHttps) \/ StartsWith(raw, StrHttp)
                /\ StartsWith(raw, StrHttps) =>
                      req[r].resp.url = StrWss \o Drop(raw, Len(StrHttps))
                /\ StartsWith(raw, StrHttp) =>
                      req[r].resp.url = StrWs \o Drop(raw, Len(StrHttp))

\* C14 witness: a /ws-url of the second revision reused an exposure with an
\* 'http://' URL, host and port, and answered its 'ws://' form
C14_Witness ==
    \E r \in WsReqs :
        /\ revision = 2
        /\ req[r].route = "ws-url" /\ req[r].pc = "done" /\ req[r].resp.status = 200
        /\ req[r].exposeVia = "na"
        /\ req[r].resp.rawPreviewUrl = UrlHttpPort
        /\ req[r].resp.url = StrWs \o <<"p", ":", "8", "/">>

\* C15: a request for which proxyToSandbox returns a response is answered with
\* exactly that response: no route is matched, the worker makes no SDK call for
\* it, and the step leaves `initialized`, `processLogs`, the readiness promise
\* and its resolver, the sandboxes, the log readers and the streams unchanged.
C15_ProxiedFirst ==
    /\ [](\A r \in WsReqs :
            req[r].route = "proxied" =>
                /\ req[r].pc = "done"
                /\ req[r].resp = req[r].answer[1]
                /\ req[r].resp \in ProxyResponses
                /\ req[r].calls = <<>>
                /\ req[r].sid = <<>>
                /\ req[r].needsInit = "na")
    /\ [][\A r \in WsReqs :
            req[r].pc = "idle" /\ req'[r].route = "proxied" =>
                UNCHANGED <<initialized, processLogs, viteReadyPromise, viteReadyResolve,
                            resolvedBy, procs, files, reader, stream>>]_vars

\* C15 witness: proxyToSandbox answered a request whose path is a ws-url path,
\* and sandbox a is neither initialized nor listed
C15_Witness ==
    \E r \in WsReqs :
        /\ req[r].route = "proxied" /\ req[r].path = WsUrlPath(SandboxA)
        /\ req[r].resp.status = 404
        /\ SandboxA \notin initialized
        /\ viteReadyPromise = 0
        /\ \A q \in WsReqs : req[q].calls = <<>>

\* C16: when the process started by an initializing request emits a ready line
\* while the request is in its readiness wait (the timer has not fired), the wait
\* ends at that line, also when the sandbox id is already in `initialized`.
\* Stated for the case where the resolver is still the request's own and its
\* process's reader is the only one reading, so that the line is its own.
C16_ReadyLineEndsWait ==
    [][\A r \in WsReqs :
         (/\ req[r].pc = "wait"
          /\ req[r].awaited = viteReadyResolve
          /\ reader[r].state = "reading"
          /\ \A q \in WsReqs \ {r} : reader[q].state # "reading"
          /\ Len(processLogs') = Len(processLogs) + 1
          /\ IsReadyLine(processLogs'[Len(processLogs')]))
         => /\ req'[r].pc = "done"
            /\ req'[r].endedBy = "ready"]_vars

\* C17: two overlapping ws-url requests for the same sandbox never both call
\* startProcess('bun run dev'): while one request that started it is still
\* unanswered, no other unanswered request for that sandbox has started it too.
C17_OneStartPerSandbox ==
    \A r, q \in WsReqs :
        (/\ r # q
         /\ req[r].pc \notin {"idle", "done"}
         /\ req[q].pc \notin {"idle", "done"}
         /\ req[r].sid = req[q].sid)
        => ~(CalledStart(r) /\ CalledStart(q))

\* the first n elements of a sequence
Prefix(seq, n) == [i \in 1 .. n |-> seq[i]]

\* C18: the events a logs-stream has emitted are the buffer entries 0, 1, ... in
\* order: the i-th event has index i-1 and the log stored at that index, no
\* index is repeated or skipped, the entries present when the stream opened come
\* first, and events once emitted stay as they are.
C18_StreamInOrderOnce ==
    /\ [](\A r \in StreamReqs :
            stream[r].state # "none" =>
                /\ Len(stream[r].emitted) = stream[r].lastLogIndex
                /\ stream[r].lastLogIndex <= Len(processLogs)
                /\ stream[r].atStart <= stream[r].lastLogIndex
                /\ \A i \in 1 .. Len(stream[r].emitted) :
                      /\ stream[r].emitted[i].index = i - 1
                      /\ stream[r].emitted[i].log = processLogs[i]
                      /\ stream[r].emitted[i].event = "vite:log")
    /\ [][\A r \in StreamReqs :
            stream[r].state # "none" =>
                /\ Len(stream'[r].emitted) >= Len(stream[r].emitted)
                /\ Prefix(stream'[r].emitted, Len(stream[r].emitted)) = stream[r].emitted]_vars

\* C18 witness: a stream that opened on a buffer of one line has emitted that
\* line and then a line appended later
C18_Witness ==
    \E r \in StreamReqs :
        /\ stream[r].state = "open"
        /\ stream[r].atStart = 1
        /\ Len(stream[r].emitted) = 2
        /\ stream[r].emitted[2].index = 1

\* C19: a ws-url request whose process list holds a 'vite' or 'bun run dev'
\* process makes no SDK call besides listProcesses, starts no log reader, leaves
\* the readiness promise, its resolver, the log buffer and the sandbox as they
\* are, adds its sandbox id to `initialized` and answers 200 with the previewUrl
\* in the step in which listProcesses returns, without entering the wait.
C19_SkipInit ==
    /\ [](\A r \in WsReqs :
            req[r].needsInit = "no" =>
                /\ HasViteProcess(req[r].processes)
                /\ req[r].pc = "done"
                /\ Len(req[r].calls) = 1 /\ req[r].calls[1].op = "listProcesses"
                /\ reader[r].state = "none"
                /\ req[r].endedBy = IdleReq.endedBy
                /\ req[r].resp.status = 200
                /\ req[r].resp.previewUrl = PreviewUrl(req[r].origin, req[r].sid)
                /\ req[r].sid \in initialized)
    /\ [][\A r \in WsReqs :
            (/\ req[r].pc = "list"
             /\ HasViteProcess(procs[req[r].sid])
             /\ req'[r].processes = procs[req[r].sid]) =>
                /\ req'[r].needsInit = "no"
                /\ initialized' = initialized \cup {req[r].sid}
                /\ UNCHANGED <<viteReadyPromise, viteReadyResolve, resolvedBy, processLogs,
                               procs, files, reader>>]_vars

\* C19 witness: a request skipped the init and was answered while another request
\* for the same sandbox is in its readiness wait on its own promise
C19_Witness ==
    \E r, q \in WsReqs :
        /\ req[r].needsInit = "no" /\ req[r].pc = "done"
        /\ req[q].pc = "wait" /\ req[q].sid = req[r].sid
        /\ viteReadyPromise = q /\ viteReadyResolve = q

\* the last SDK call request r made
LastCall(r) == req[r].calls[Len(req[r].calls)]

\* C20: a ws-url request in which listProcesses, a writeFile, exec('bun install')
\* or startProcess throws is answered 500 with the JSON error body in that step;
\* it makes no later call (no startProcess after a failed write or install, no
\* log reader, no wait), and neither the failing step nor any other step of that
\* request adds the sandbox id to `initialized`.
C20_ThrowAnswers500 ==
    /\ [](\A r \in WsReqs :
            req[r].resp.status = 500 =>
                /\ req[r].pc = "done"
                /\ req[r].resp = ErrorResponse
                /\ LastCall(r).op \in {"listProcesses", "writeFile", "exec", "startProcess"}
                /\ LastCall(r).op # "startProcess" => ~CalledStart(r)
                /\ reader[r].state = "none"
                /\ req[r].endedBy = IdleReq.endedBy)
    /\ [][\A r \in WsReqs :
            /\ req[r].resp.status = 500 => req'[r] = req[r]
            /\ req'[r].resp.status = 500 /\ req[r].resp.status # 500 =>
                  /\ req[r].pc \in {"list", "init"}
                  /\ req'[r].calls = req[r].calls
                  /\ UNCHANGED <<initialized, viteReadyPromise, viteReadyResolve,
                                 processLogs, procs, files>>
            /\ req'[r] # req[r] /\ initialized' # initialized =>
                  req'[r].pc = "done" /\ req'[r].resp.status = 200]_vars

\* C20 witness: exec('bun install') threw after the four files were written; the
\* request is answered 500, has not called startProcess, and its sandbox id is
\* not in `initialized`
C20_Witness ==
    \E r \in WsReqs :
        /\ req[r].resp = ErrorResponse
        /\ LastCall(r).op = "exec"
        /\ Len(req[r].calls) >= 6
        /\ ~CalledStart(r)
        /\ req[r].sid \notin initialized

\* the process with this id is listed in the sandbox
Listed(sid, id) == \E i \in 1 .. Len(procs[sid]) : procs[sid][i].id = id

\* C21: whatever a killProcess call does (kill the process or throw), the step
\* that ends it calls killProcess for the next listed process or, after the last
\* one, the first writeFile of the initialization; the request is never answered
\* from inside the kill loop, and a request that is past the loop has called
\* killProcess once for every process of its list, in the list's order.
C21_KillFailureContinues ==
    /\ [][\A r \in WsReqs :
            req[r].pc = "kill" /\ req'[r] # req[r] =>
                LET k == req[r].k
                    processes == req[r].processes
                IN  /\ req'[r].resp = NoResp
                    /\ k < Len(processes) =>
                          /\ req'[r].pc = "kill" /\ req'[r].k = k + 1
                          /\ req'[r].calls =
                                Append(req[r].calls,
                                       Call("killProcess", processes[k + 1].id, ""))
                    /\ k = Len(processes) =>
                          /\ req'[r].pc = "init"
                          /\ req'[r].calls = Append(req[r].calls, InitSteps[1])]_vars
    /\ [](\A r \in WsReqs :
            req[r].pc \in {"init", "wait"} =>
                \A i \in 1 .. Len(req[r].processes) :
                    req[r].calls[i + 1] = Call("killProcess", req[r].processes[i].id, ""))

\* C21 witness: a request has called startProcess although both processes of
\* its list are still in the sandbox (both killProcess calls failed)
C21_Witness ==
    \E r \in WsReqs :
        /\ CalledStart(r)
        /\ Len(req[r].processes) = 2
        /\ \A i \in 1 .. 2 : Listed(req[r].sid, req[r].processes[i].id)

\* the calls request r made after its kill loop
InitCalls(r) == SubSeq(req[r].calls, 2 + Len(req[r].processes), Len(req[r].calls))

\* the calls of a whole initialization by request r, in the handler's order
AllInitCalls(r) == InitSteps \o <<Call("streamProcessLogs", r, "")>>

\* C22: the calls of an initialization are made in the order writeFile
\* package.json, index.html, vite.config.js, main.js, exec('bun install'),
\* startProcess('bun run dev'), streamProcessLogs, one at a time: while the k-th
\* is awaited none after it has been made and the files of the writes before it
\* are in the sandbox; the request is in its wait only with all of them made, and
\* the step in which an initializing request adds its id to `initialized` is the
\* step that ends its wait.
C22_InitStepsInOrder ==
    /\ [](\A r \in WsReqs :
            req[r].needsInit = "yes" /\ req[r].pc # "kill" =>
                /\ Len(InitCalls(r)) \in 1 .. Len(AllInitCalls(r))
                /\ \A i \in 1 .. Len(InitCalls(r)) : InitCalls(r)[i] = AllInitCalls(r)[i]
                /\ req[r].pc = "init" =>
                      /\ Len(InitCalls(r)) = req[r].k
                      /\ req[r].k <= Len(InitSteps)
                      /\ reader[r].state = "none"
                      /\ \A i \in 1 .. (req[r].k - 1) :
                            InitSteps[i].op = "writeFile" =>
                                files[req[r].sid][InitSteps[i].arg] # Absent
                /\ req[r].pc = "wait" => Len(InitCalls(r)) = Len(AllInitCalls(r))
                /\ reader[r].state # "none" => Len(InitCalls(r)) = Len(AllInitCalls(r)))
    /\ [][\A r \in WsReqs :
            (/\ req'[r].needsInit = "yes"
             /\ req'[r] # req[r]
             /\ initialized' # initialized)
            => /\ req'[r].pc = "done"
               /\ req'[r].endedBy \in {"timer", "ready", "resolved"}
               /\ req[r].pc \in {"wait", "init"}
               /\ req[r].pc = "init" => req[r].k = Len(InitSteps)
               /\ Len(req'[r].calls) = 1 + Len(req[r].processes) + Len(AllInitCalls(r))]_vars

\* C22 witness: a request is in its readiness wait after all seven calls, the four
\* files are in its sandbox and its id is not in `initialized`
C22_Witness ==
    \E r \in WsReqs :
        /\ req[r].pc = "wait"
        /\ InitCalls(r) = AllInitCalls(r)
        /\ \A i \in 1 .. 4 : files[req[r].sid][InitSteps[i].arg] # Absent
        /\ req[r].sid \notin initialized

\* the kinds of response each route of the per-sandbox worker gives
KindsOf(route) ==
    CASE route = "ws-url" -> {"json", "error"}
      [] route = "root" -> {"assets"}
      [] route = "test-hmr" -> {"hmr-ok", "hmr-error"}
      [] route = "logs-stream" -> {"event-stream"}
      [] route = "preview" -> {"container", "error"}
      [] OTHER -> {"Not found"}

\* C23: a request proxyToSandbox did not take is handled by the first route that
\* matches it in the order ws-url, root, test-hmr with POST, logs-stream,
\* preview, and by the 404 'Not found' response when none matches; it gets one
\* response, of its route, which never changes; the 404 case makes no sandbox
\* call and changes no state of the worker or the sandbox.
C23_RoutingTotal ==
    /\ [](\A r \in WsReqs :
            req[r].pc # "idle" /\ req[r].route # "proxied" =>
                LET pathname == req[r].path
                    isWsUrl == WsUrlMatch(pathname)
                    isRoot == ~isWsUrl /\ pathname \in {<<"/">>, StrIndexHtml}
                    isTestHmr == /\ ~isWsUrl /\ ~isRoot
                                 /\ TestHmrMatch(pathname) /\ req[r].method = "POST"
                    isLogs == ~isWsUrl /\ ~isRoot /\ ~isTestHmr /\ LogsMatch(pathname)
                    isPreview == /\ ~isWsUrl /\ ~isRoot /\ ~isTestHmr /\ ~isLogs
                                 /\ PreviewMatch(pathname)
                IN  /\ req[r].route = "ws-url" <=> isWsUrl
                    /\ req[r].route = "root" <=> isRoot
                    /\ req[r].route = "test-hmr" <=> isTestHmr
                    /\ req[r].route = "logs-stream" <=> isLogs
                    /\ req[r].route = "preview" <=> isPreview
                    /\ req[r].route = "notfound" <=>
                          ~(isWsUrl \/ isRoot \/ isTestHmr \/ isLogs \/ isPreview)
                    /\ req[r].pc = "done" => req[r].resp.kind \in KindsOf(req[r].route)
                    /\ req[r].pc # "done" => req[r].resp = NoResp
                    /\ req[r].route = "notfound" =>
                          /\ req[r].pc = "done"
                          /\ req[r].resp = NotFoundResponse
                          /\ req[r].calls = <<>>)
    /\ [][\A r \in WsReqs :
            /\ req[r].pc = "done" => req'[r] = req[r]
            /\ req[r].pc = "idle" /\ req'[r].route = "notfound" =>
                  UNCHANGED <<initialized, processLogs, viteReadyPromise, viteReadyResolve,
                              resolvedBy, procs, files, reader, stream>>]_vars

\* C23 witness: '/index.html' was served by the root route and a ws-url path
\* with a trailing slash, which no route matches, was answered 404
C23_Witness ==
    \E r, q \in WsReqs :
        /\ req[r].path = StrIndexHtml /\ req[r].route = "root" /\ req[r].pc = "done"
        /\ req[q].path = WsUrlPath(SandboxA) \o <<"/">>
        /\ req[q].resp = NotFoundResponse

\* C24: a request to /sandbox/:sandboxId/test-hmr whose method is not POST is
\* answered 404 'Not found' on arrival, with no sandbox call and no file
\* written; main.js is rewritten with a count only in the step that ends the
\* writeFile call of a POST test-hmr request.
C24_TestHmrPostOnly ==
    /\ [](\A r \in WsReqs :
            (/\ req[r].pc # "idle" /\ req[r].route # "proxied"
             /\ TestHmrMatch(req[r].path) /\ req[r].method # "POST")
            => /\ req[r].pc = "done"
               /\ req[r].resp = NotFoundResponse
               /\ req[r].calls = <<>>)
    /\ [][/\ \A r \in WsReqs :
               (/\ req[r].pc = "idle" /\ req'[r].pc # "idle" /\ req'[r].route # "proxied"
                /\ TestHmrMatch(req'[r].path) /\ req'[r].method # "POST")
               => files' = files
          /\ \A s \in Sandboxes :
               (/\ files'[s][TestHmrFile] # files[s][TestHmrFile]
                /\ files'[s][TestHmrFile].kind = "main-count")
               => \E r \in WsReqs :
                     /\ req[r].pc = "hmr" /\ req'[r].pc = "done"
                     /\ req[r].method = "POST" /\ req[r].sid = s]_vars

\* C24 witness: a GET to the test-hmr path of sandbox a was answered 404 and
\* main.js of sandbox a does not exist
C24_Witness ==
    \E r \in WsReqs :
        /\ req[r].path = TestHmrPath(SandboxA) /\ req[r].method = "GET"
        /\ req[r].resp = NotFoundResponse
        /\ files[SandboxA][TestHmrFile] = Absent

\* C25: a POST test-hmr request whose body is not JSON is answered 500 with
\* {success: false, error} without any sandbox call or file change, and one
\* whose writeFile throws is answered with the same 500 body; a test-hmr request
\* gets no other 500, and the answering step leaves `initialized`,
\* `processLogs`, the readiness promise and its resolver unchanged.
C25_TestHmrErrors ==
    /\ [](\A r \in WsReqs :
            req[r].route = "test-hmr" =>
                /\ req[r].body # None
                /\ ~req[r].body[1].valid =>
                      /\ req[r].pc = "done"
                      /\ req[r].resp = HmrErrorResponse
                      /\ req[r].calls = <<>>
                /\ req[r].resp.status = 500 => req[r].resp = HmrErrorResponse
                /\ req[r].resp.status \in {0, 200, 500})
    /\ [][\A r \in WsReqs :
            req'[r].route = "test-hmr" /\ req'[r].resp.status = 500 /\ req[r].resp.status # 500
            => /\ UNCHANGED <<initialized, processLogs, viteReadyPromise, viteReadyResolve,
                              resolvedBy>>
               /\ \/ req[r].pc = "idle" /\ ~req'[r].body[1].valid /\ files' = files
                  \/ /\ req[r].pc = "hmr" /\ req[r].body[1].valid
                     /\ req'[r].calls = <<Call("writeFile", 0, TestHmrFile)>>]_vars

\* C25 witness: one test-hmr request with a body that is not JSON and one whose
\* writeFile threw are both answered with the 500 body
C25_Witness ==
    \E r, q \in WsReqs :
        /\ req[r].route = "test-hmr" /\ ~req[r].body[1].valid
        /\ req[r].resp = HmrErrorResponse
        /\ req[q].route = "test-hmr" /\ req[q].body[1].valid
        /\ req[q].resp = HmrErrorResponse
        /\ Len(req[q].calls) = 1

\* C26: a cancelled logs-stream never changes again (no event is emitted on it,
\* whatever is appended to the buffer); the step that cancels a stream changes
\* nothing of that stream but its state and nothing of any other stream; and an
\* open stream still gets every stored line while another stream is cancelled.
C26_CancelStopsOneStream ==
    /\ [][\A r \in StreamReqs :
            /\ stream[r].state = "cancelled" => stream'[r] = stream[r]
            /\ stream[r].state = "open" /\ stream'[r].state = "cancelled" =>
                  /\ stream'[r] = [stream[r] EXCEPT !.state = "cancelled"]
                  /\ \A q \in StreamReqs \ {r} : stream'[q] = stream[q]
                  /\ processLogs' = processLogs]_vars
    /\ \A r, q \in StreamReqs :
          \A i \in 1 .. MaxLogs :
              [](/\ r # q
                 /\ stream[r].state = "cancelled"
                 /\ stream[q].state = "open"
                 /\ Len(processLogs) >= i
                 => <>(stream[q].state = "cancelled" \/ Emitted(q, i)))

\* C26 witness: a line was stored after one stream was cancelled; the cancelled
\* stream has not emitted it and the other stream, still open, has
C26_Witness ==
    \E r, q \in StreamReqs :
        /\ stream[r].state = "cancelled"
        /\ stream[q].state = "open"
        /\ Len(stream[r].emitted) < Len(processLogs)
        /\ Len(stream[q].emitted) = Len(processLogs)
        /\ stream[q].atStart < Len(processLogs)

\* the routes of the per-sandbox worker other than ws-url
OtherRoutes == {"root", "test-hmr", "logs-stream", "preview", "notfound"}

\* the SDK calls that manage the processes of a sandbox
ProcessOps == {"listProcesses", "killProcess", "exec", "startProcess", "streamProcessLogs"}

\* C27: a step of a root, test-hmr, logs-stream, preview or 404 request, and a
\* step of a stream, leaves `initialized`, the readiness promise, its resolver
\* and `processLogs` unchanged; such a request calls none of listProcesses,
\* killProcess, exec, startProcess and starts no log reader; `processLogs`
\* changes only by one line appended by the log reader that an initializing
\* ws-url request started.
C27_OnlyWsUrlChangesInit ==
    /\ [](\A r \in WsReqs :
            req[r].route \in OtherRoutes =>
                /\ \A i \in 1 .. Len(req[r].calls) : req[r].calls[i].op \notin ProcessOps
                /\ reader[r].state = "none"
                /\ req[r].needsInit = "na")
    /\ [][/\ \A r \in WsReqs :
               req'[r] # req[r] /\ req'[r].route \in OtherRoutes =>
                   UNCHANGED <<initialized, viteReadyPromise, viteReadyResolve,
                               resolvedBy, processLogs>>
          /\ stream' # stream =>
                   UNCHANGED <<initialized, viteReadyPromise, viteReadyResolve,
                               resolvedBy, processLogs>>
          /\ processLogs' # processLogs =>
                /\ Len(processLogs') = Len(processLogs) + 1
                /\ SubSeq(processLogs', 1, Len(processLogs)) = processLogs
                /\ \E r \in WsReqs :
                      /\ req[r].route = "ws-url" /\ CalledStart(r)
                      /\ reader[r].state = "reading"
                      /\ logSource'[Len(processLogs')] = req[r].sid
          /\ <<initialized, viteReadyPromise, viteReadyResolve, resolvedBy>>' #
                <<initialized, viteReadyPromise, viteReadyResolve, resolvedBy>> =>
                \E r \in WsReqs : req[r].route = "ws-url" /\ req[r].pc # "done"]_vars

\* C27 witness: a test-hmr request has rewritten main.js and been answered 200
\* while a ws-url request is in its wait with a log line stored; `initialized`
\* is empty and the promise is the ws-url request's
C27_Witness ==
    \E r, q \in WsReqs :
        /\ req[r].route = "test-hmr" /\ req[r].resp.status = 200
        /\ req[q].route = "ws-url" /\ req[q].pc = "wait"
        /\ Len(processLogs) > 0
        /\ initialized = {}
        /\ viteReadyPromise = q /\ viteReadyResolve = q

\* C28: the log buffer only grows at its end: a step leaves the entries it
\* held as they were, at their indices; and every entry is the trimmed data of
\* an event, not empty, with no whitespace at its start or its end.
C28_LogBufferAppendOnly ==
    /\ [](\A i \in 1 .. Len(processLogs) :
            LET entry == processLogs[i]
            IN  /\ Len(entry) > 0
                /\ ~IsSpace(entry[1])
                /\ ~IsSpace(entry[Len(entry)])
                /\ \E event \in LogEvents : event # None /\ entry = Trim(event[1]))
    /\ [][/\ Len(processLogs') >= Len(processLogs)
          /\ SubSeq(processLogs', 1, Len(processLogs)) = processLogs
          /\ Len(logSource') = Len(processLogs')]_vars

\* C28 witness: the buffer holds a line of a process of each sandbox, the second
\* stored after the first sandbox's initialization was answered
C28_Witness ==
    /\ Len(processLogs) = 2
    /\ logSource[1] # logSource[2]
    /\ \E r \in WsReqs : req[r].sid = logSource[1] /\ InitAnswered(r)

\* request r found a Vite process in the list it got
FoundVite(r) == req[r].needsInit = "no" /\ HasViteProcess(req[r].processes)

\* request r started a Vite process and its readiness wait has ended
WaitedOut(r) ==
    /\ CalledStart(r)
    /\ req[r].pc = "done"
    /\ req[r].endedBy \in {"timer", "ready", "resolved"}

\* C29: `initialized` never loses an id; an id is in it only if a ws-url request
\* for that id found a Vite process in its process list, or started one and
\* ended its readiness wait; so an id whose requests all failed with 500 is not
\* in it.
C29_InitializedOnlyGrows ==
    /\ [](\A s \in initialized :
            /\ \E r \in WsReqs :
                  /\ req[r].route = "ws-url" /\ req[r].sid = s
                  /\ FoundVite(r) \/ WaitedOut(r)
            /\ ~(\A r \in WsReqs :
                    req[r].pc # "idle" /\ req[r].sid = s => req[r].resp.status = 500))
    /\ [][initialized \subseteq initialized']_vars

\* C29 witness: one sandbox is in `initialized` because a request found its Vite
\* process, the other because a request started one and its timer fired
C29_Witness ==
    \E r, q \in WsReqs :
        /\ FoundVite(r)
        /\ WaitedOut(q) /\ req[q].endedBy = "timer"
        /\ req[r].sid # req[q].sid
        /\ initialized = {req[r].sid, req[q].sid}

=============================================================================
